---- MODULE Spec2Model ----
(***************************************************************************)
(* Model of validate_raw.py: pre-flight validation of a raw/ directory of  *)
(* TomTom JSON files (filename pattern, JSON/structure checks, content     *)
(* duplicates, slot collisions, orphan detection in output/).              *)
(*                                                                         *)
(* Text is modelled as sequences of one-character strings, so that         *)
(* parsing, case folding, key formatting and sorting are computed.         *)
(***************************************************************************)
EXTENDS Integers, Sequences, FiniteSets, TLC

\* ---------------------------------------------------------------------
\* Characters and strings
\* ---------------------------------------------------------------------

UPPER == <<"A", "B", "C", "D", "E", "F", "G", "H", "I", "J", "K", "L", "M", "N", "O", "P", "Q", "R", "S", "T", "U", "V", "W", "X", "Y", "Z">>

LOWER == <<"a", "b", "c", "d", "e", "f", "g", "h", "i", "j", "k", "l", "m", "n", "o", "p", "q", "r", "s", "t", "u", "v", "w", "x", "y", "z">>

\* The characters used by the model, in code-point order.
ASCII == <<"\n", ".", "0", "1", "2", "3", "4", "5", "6", "7", "8", "9", "A", "B", "C", "D", "E", "F", "G", "H", "I", "J", "K", "L", "M", "N", "O", "P", "Q", "R", "S", "T", "U", "V", "W", "X", "Y", "Z", "_", "a", "b", "c", "d", "e", "f", "g", "h", "i", "j", "k", "l", "m", "n", "o", "p", "q", "r", "s", "t", "u", "v", "w", "x", "y", "z">>

Digits == {"0", "1", "2", "3", "4", "5", "6", "7", "8", "9"}

\* the rank of each character in code-point order
OrdTable ==
    [c \in {ASCII[i] : i \in 1..Len(ASCII)} |-> CHOOSE i \in 1..Len(ASCII) : ASCII[i] = c]

Ord(c) == OrdTable[c]

LowerTable ==
    [c \in {UPPER[i] : i \in 1..Len(UPPER)} |-> LOWER[CHOOSE i \in 1..Len(UPPER) : UPPER[i] = c]]

\* str.lower() on one character
LowerChar(c) == IF c \in DOMAIN LowerTable THEN LowerTable[c] ELSE c

\* str.lower()
Lower(s) == [i \in 1..Len(s) |-> LowerChar(s[i])]

\* s < t for str (code-point lexicographic order)
StrLess(s, t) ==
    \E k \in 1..(Len(t)) :
        /\ \A j \in 1..(k - 1) : j <= Len(s) /\ s[j] = t[j]
        /\ \/ k = Len(s) + 1
           \/ k <= Len(s) /\ Ord(s[k]) < Ord(t[k])

\* s[i..] starts with t, compared as the regular expression does under
\* re.IGNORECASE
MatchesAtIgnoreCase(s, i, t) ==
    /\ i + Len(t) - 1 <= Len(s)
    /\ \A j \in 1..Len(t) : LowerChar(s[i + j - 1]) = LowerChar(t[j])

\* index just after the longest run of digits of s that starts at i
RECURSIVE DigitsEnd(_, _)
DigitsEnd(s, i) ==
    IF i <= Len(s) /\ s[i] \in Digits THEN DigitsEnd(s, i + 1) ELSE i

Slice(s, i, j) == SubSeq(s, i, j - 1)

\* ---------------------------------------------------------------------
\* parse_filename
\* ---------------------------------------------------------------------

KW_incoming == <<"i", "n", "c", "o", "m", "i", "n", "g">>

KW_outgoing == <<"o", "u", "t", "g", "o", "i", "n", "g">>

Ext_json == <<".", "j", "s", "o", "n">>

Underscore == <<"_">>

NoParts == [ok |-> FALSE, device |-> <<>>, direction |-> <<>>, x |-> <<>>, y |-> <<>>]

\* FILENAME_RE.match(name): ^(\d+)_(incoming|outgoing)_(\d+)_(\d+)\.json$
\* with re.IGNORECASE ($ also matches just before one final newline).
\* The digit runs are maximal because each is followed by a non-digit.
\* Returns the captured groups, or ok = FALSE when there is no match.
FILENAME_RE(name) ==
    LET d1 == DigitsEnd(name, 1)
        k1 == d1 + 1
        k2 == k1 + Len(KW_incoming)
        x1 == k2 + 1
        x2 == DigitsEnd(name, x1)
        y1 == x2 + 1
        y2 == DigitsEnd(name, y1)
    IN  IF /\ d1 > 1
           /\ MatchesAtIgnoreCase(name, d1, Underscore)
           /\ \/ MatchesAtIgnoreCase(name, k1, KW_incoming)
              \/ MatchesAtIgnoreCase(name, k1, KW_outgoing)
           /\ MatchesAtIgnoreCase(name, k2, Underscore)
           /\ x2 > x1
           /\ MatchesAtIgnoreCase(name, x2, Underscore)
           /\ y2 > y1
           /\ MatchesAtIgnoreCase(name, y2, Ext_json)
           /\ LET e == y2 + Len(Ext_json)
              IN  \/ e = Len(name) + 1
                  \/ e = Len(name) /\ name[e] = "\n"
        THEN [ok |-> TRUE, device |-> Slice(name, 1, d1),
              direction |-> Slice(name, k1, k2),
              x |-> Slice(name, x1, x2), y |-> Slice(name, y1, y2)]
        ELSE NoParts

\* Mutant of parse_filename: the direction keeps its case
parse_filename_KeepsCase(name) == FILENAME_RE(name)

\* parse_filename(name): None is NoParts
parse_filename(name) ==
    LET m == FILENAME_RE(name)
    IN  IF ~m.ok THEN NoParts
        ELSE [ok |-> TRUE, device |-> m.device,
              direction |-> Lower(m.direction), x |-> m.x, y |-> m.y]

\* ---------------------------------------------------------------------
\* JSON values and validate_structure
\* ---------------------------------------------------------------------

\* A JSON value is [t, v]: t its Python type after json.load, v its payload
\* (dict: a record keyed by the member names; list: a sequence; str: a
\* sequence of characters).
JStr(s) == [t |-> "str", v |-> s]

JNum(n) == [t |-> "int", v |-> n]

JNull == [t |-> "NoneType", v |-> 0]

JBool(b) == [t |-> "bool", v |-> b]

JArr(a) == [t |-> "list", v |-> a]

JObj(r) == [t |-> "dict", v |-> r]

F_id == <<"i", "d">>

F_parentid == <<"p", "a", "r", "e", "n", "t", "i", "d">>

F_trips == <<"t", "r", "i", "p", "s">>

F_frc == <<"f", "r", "c">>

F_geometry == <<"g", "e", "o", "m", "e", "t", "r", "y">>

F_processingfailures == <<"p", "r", "o", "c", "e", "s", "s", "i", "n", "g", "f", "a", "i", "l", "u", "r", "e", "s">>

F_privacytrims == <<"p", "r", "i", "v", "a", "c", "y", "t", "r", "i", "m", "s">>

EXPECTED_FIELDS == <<F_id, F_parentid, F_trips, F_frc, F_geometry, F_processingfailures, F_privacytrims>>

\* An error or warning string, kept as its kind and the names, key and
\* numbers formatted into it (the text of a caught exception is left out).
Msg(kind, names, key, check, i, n, m) ==
    [kind |-> kind, names |-> names, key |-> key, check |-> check,
     i |-> i, n |-> n, m |-> m]

\* validate_structure returned None
NoError == Msg("none", <<>>, <<>>, "", 0, 0, 0)

StructureError(name, check, i, n, m) ==
    Msg("structure", <<name>>, <<>>, check, i, n, m)

\* Mutant of FirstBadRow: the last failing row is reported
RECURSIVE FirstBadRow_Last(_, _, _)
FirstBadRow_Last(nodes, i, expected_len) ==
    IF i > Len(nodes) THEN 0
    ELSE LET later == FirstBadRow_Last(nodes, i + 1, expected_len)
         IN  IF later # 0 THEN later
             ELSE IF nodes[i].t # "list" THEN i
             ELSE IF Len(nodes[i].v) # expected_len THEN i
             ELSE 0

\* first index (1-based) of nodes failing a row check, 0 if none
RECURSIVE FirstBadRow(_, _, _)
FirstBadRow(nodes, i, expected_len) ==
    IF i > Len(nodes) THEN 0
    ELSE IF nodes[i].t # "list" THEN i
    ELSE IF Len(nodes[i].v) # expected_len THEN i
    ELSE FirstBadRow(nodes, i + 1, expected_len)

\* Mutant of SchemaMismatch: the field names are compared as written
SchemaMismatch_CaseSensitive(nf) ==
    \/ Len(nf) # Len(EXPECTED_FIELDS)
    \/ \E k \in 1..Len(nf) :
          \/ nf[k].t # "str"
          \/ nf[k].v # EXPECTED_FIELDS[k]

\* lower != EXPECTED_FIELDS, where
\* lower = [f.lower() if isinstance(f, str) else f for f in nf]
SchemaMismatch(nf) ==
    \/ Len(nf) # Len(EXPECTED_FIELDS)
    \/ \E k \in 1..Len(nf) :
          \/ nf[k].t # "str"
          \/ Lower(nf[k].v) # EXPECTED_FIELDS[k]

\* validate_structure(doc, path); name is path.name. Row indices in the
\* message are 0-based as in the code.
validate_structure(doc, name) ==
    IF doc.t # "dict" THEN StructureError(name, "not_object", 0, 0, 0)
    ELSE IF "nodeFormat" \notin DOMAIN doc.v
        THEN StructureError(name, "missing_nodeFormat", 0, 0, 0)
    ELSE IF "nodes" \notin DOMAIN doc.v
        THEN StructureError(name, "missing_nodes", 0, 0, 0)
    ELSE IF doc.v.nodeFormat.t # "list"
        THEN StructureError(name, "nodeFormat_not_array", 0, 0, 0)
    ELSE IF doc.v.nodes.t # "list"
        THEN StructureError(name, "nodes_not_array", 0, 0, 0)
    ELSE IF SchemaMismatch(doc.v.nodeFormat.v)
        THEN StructureError(name, "schema", 0, 0, 0)
    ELSE LET nodes == doc.v.nodes.v
             expected_len == Len(doc.v.nodeFormat.v)
             b == FirstBadRow(nodes, 1, expected_len)
         IN  IF b = 0 THEN NoError
             ELSE IF nodes[b].t # "list"
                 THEN StructureError(name, "node_not_array", b - 1, 0, 0)
             ELSE StructureError(name, "node_len", b - 1,
                                 Len(nodes[b].v), expected_len)

\* ---------------------------------------------------------------------
\* The file system seen by one run
\* ---------------------------------------------------------------------

\* Bounds of the model
MaxRawFiles == 3

MaxOutFiles == 3

\* File names that can occur in raw/
RawNames == {"1_incoming_0_0.json", "1_INCOMING_0_0.json", "1_incoming_00_0.json", "notes.json"}

\* File names that can occur in output/
OutNames == {"1_incoming_0_0.json", "old.json", "stale.json", "old.shp"}

\* File names that can occur in the input directory of normalize_trips and
\* of json_to_shapefile
InNames == {"1_incoming_0_0.json", "2_OUTGOING_0_0.json", "notes.json", "old.shp"}

\* The characters of a file name
Chars(name) ==
    CASE name = "1_incoming_0_0.json" ->
           <<"1", "_", "i", "n", "c", "o", "m", "i", "n", "g", "_", "0", "_", "0", ".", "j", "s", "o", "n">>
      [] name = "1_INCOMING_0_0.json" ->
           <<"1", "_", "I", "N", "C", "O", "M", "I", "N", "G", "_", "0", "_", "0", ".", "j", "s", "o", "n">>
      [] name = "1_incoming_00_0.json" ->
           <<"1", "_", "i", "n", "c", "o", "m", "i", "n", "g", "_", "0", "0", "_", "0", ".", "j", "s", "o", "n">>
      [] name = "notes.json" ->
           <<"n", "o", "t", "e", "s", ".", "j", "s", "o", "n">>
      [] name = "old.json" ->
           <<"o", "l", "d", ".", "j", "s", "o", "n">>
      [] name = "stale.json" ->
           <<"s", "t", "a", "l", "e", ".", "j", "s", "o", "n">>
      [] name = "old.shp" ->
           <<"o", "l", "d", ".", "s", "h", "p">>
      [] name = "2_OUTGOING_0_0.json" ->
           <<"2", "_", "O", "U", "T", "G", "O", "I", "N", "G", "_", "0", "_", "0", ".", "j", "s", "o", "n">>

\* What a raw directory entry can hold: the bytes of two valid documents,
\* of {"wrong": true}, bytes that are not UTF-8, and "broken": the text
\* "{broken!!" or an entry that cannot be opened (a directory, no
\* permission).
Contents == {"docA", "docB", "wrong", "broken", "badutf8"}

F_parentId == <<"p", "a", "r", "e", "n", "t", "I", "d">>

F_processingFailures == <<"p", "r", "o", "c", "e", "s", "s", "i", "n", "g", "F", "a", "i", "l", "u", "r", "e", "s">>

F_privacyTrims == <<"p", "r", "i", "v", "a", "c", "y", "T", "r", "i", "m", "s">>

STANDARD_NODE_FORMAT == <<F_id, F_parentId, F_trips, F_frc, F_geometry, F_processingFailures, F_privacyTrims>>

SAMPLE_COORDS == JArr(<<JArr(<<JNum(7), JNum(47)>>), JArr(<<JNum(8), JNum(47)>>)>>)

make_node(node_id, parent_id, trips, frc, coords) ==
    JArr(<<node_id, parent_id, trips, frc, coords, JNum(0), JNum(0)>>)

good_doc(trips) ==
    JObj([nodeFormat |-> JArr([k \in 1..Len(STANDARD_NODE_FORMAT) |-> JStr(STANDARD_NODE_FORMAT[k])]),
          nodes |-> JArr(<<make_node(JNum(0), JNull, JNum(trips), JNum(3), SAMPLE_COORDS)>>)])

\* open(fp, encoding="utf-8") followed by json.load(f): the possible
\* outcomes, each the exception raised ("none" if none) and the document
json_load(content) ==
    CASE content = "docA" -> {[exc |-> "none", doc |-> good_doc(100)]}
      [] content = "docB" -> {[exc |-> "none", doc |-> good_doc(200)]}
      [] content = "wrong" -> {[exc |-> "none", doc |-> JObj([wrong |-> JBool(TRUE)])]}
      [] content = "broken" -> {[exc |-> "JSONDecodeError", doc |-> JNull],
                                [exc |-> "OSError", doc |-> JNull]}
      [] content = "badutf8" -> {[exc |-> "UnicodeDecodeError", doc |-> JNull]}

\* except (json.JSONDecodeError, OSError)
CaughtOnLoad == {"JSONDecodeError", "OSError"}

\* hashlib.sha256 of the bytes: equal bytes give equal digests, different
\* bytes different digests
sha256(content) == <<"sha256", content>>

\* Path.glob("*.json") over the names of a directory
EndsWith(s, suffix) ==
    /\ Len(s) >= Len(suffix)
    /\ SubSeq(s, Len(s) - Len(suffix) + 1, Len(s)) = suffix

\* Mutant of glob_json: every entry is listed, whatever its extension
glob_json_AnyName(entries) == entries

glob_json(entries) == {n \in entries : EndsWith(Chars(n), Ext_json)}

\* the orders in which a directory listing can return a set of names
Listings(S) ==
    {f \in [1..Cardinality(S) -> S] : \A i, j \in 1..Cardinality(S) : f[i] = f[j] => i = j}

\* x < y for two paths of one directory: their names compared as str
PathLess ==
    [x \in RawNames \cup OutNames \cup InNames |->
        [y \in RawNames \cup OutNames \cup InNames |-> StrLess(Chars(x), Chars(y))]]

\* sorted(): paths of one directory compare by their names
RECURSIVE InsertSorted(_, _)
InsertSorted(x, s) ==
    IF s = <<>> THEN <<x>>
    ELSE IF PathLess[x][Head(s)] THEN <<x>> \o s
    ELSE <<Head(s)>> \o InsertSorted(x, Tail(s))

\* Mutant of sorted: the listing is kept in the order it came in
sorted_AsListed(s) == s

RECURSIVE sorted(_)
sorted(s) == IF s = <<>> THEN <<>> ELSE InsertSorted(Head(s), sorted(Tail(s)))

Range(s) == {s[i] : i \in 1..Len(s)}

\* ---------------------------------------------------------------------
\* validate_raw as a state machine
\* ---------------------------------------------------------------------

VARIABLES
    rawDir,          \* raw/: file name -> content
    outMode,         \* "none": output_dir is None; "missing": not a directory; "dir"
    outDir,          \* output/: the file names in it
    outDir0,         \* output/ as it was when the run began
    delete_orphans,  \* the argument
    pc,              \* position in validate_raw
    json_files,      \* sorted(raw_dir.glob("*.json"))
    idx,             \* position of the running for loop (1-based)
    errors,
    warnings,
    stats,
    valid_files,
    parsed_names,    \* dict in insertion order: <<[fp, parts], ...>>
    hashes,          \* dict in insertion order: <<[key, paths], ...>>
    slots,           \* dict in insertion order: <<[key, paths], ...>>
    out_files,       \* sorted(output_dir.glob("*.json"))
    exc,             \* the exception that left validate_raw, "none" if none
    result,          \* the returned tuple
    raw_is_dir,      \* main: args.raw_dir is a directory
    strict,          \* main: args.strict
    exit_code,       \* main: the value main returned, -1 before it returns
    arg,             \* the argument of a function called on its own
    ret,             \* what that call returned
    inputDir,        \* normalize_trips, json_to_shapefile: input_dir, file name -> content
    input_is_dir,    \* args.input_dir is a directory
    outputDir,       \* normalize_trips: output_dir, file name -> content
    inplace,         \* normalize_trips: args.inplace
    merge,           \* json_to_shapefile: args.merge
    failures,        \* the failures list of the two main functions
    processed,       \* normalize_trips: the processed counter
    runs,            \* normalize_trips: how many runs of main have ended
    shapefiles       \* json_to_shapefile: shapefile path -> its features

vars == <<rawDir, outMode, outDir, outDir0, delete_orphans, pc, json_files, idx, errors,
          warnings, stats, valid_files, parsed_names, hashes, slots, out_files,
          exc, result, raw_is_dir, strict, exit_code, arg, ret,
          inputDir, input_is_dir, outputDir, inplace, merge, failures, processed,
          runs, shapefiles>>

\* the state of normalize_trips and json_to_shapefile
toolVars == <<inputDir, input_is_dir, outputDir, inplace, merge, failures, processed,
              runs, shapefiles>>

\* what validate_raw itself never touches
outerVars == <<raw_is_dir, strict, exit_code, arg, ret, toolVars>>

\* no call of a function on its own is under way
NoCall == [fn |-> "none"]

NoExc == [type |-> "none", op |-> "none"]

NoResult == [returned |-> FALSE, errors |-> <<>>, warnings |-> <<>>, stats |-> <<>>]

ZeroStats ==
    [total_files |-> 0, valid_files |-> 0, bad_pattern |-> 0, bad_json |-> 0,
     bad_structure |-> 0, hash_dupes |-> 0, slot_collisions |-> 0,
     orphans |-> 0, orphans_deleted |-> 0]

\* the raw directories of at most n files
RawDirsUpTo(n) ==
    UNION {[S -> Contents] : S \in {T \in SUBSET RawNames : Cardinality(T) <= n}}

RawDirs == RawDirsUpTo(MaxRawFiles)

OutDirs == {T \in SUBSET OutNames : Cardinality(T) <= MaxOutFiles}

\* what output/ can hold: anything when output_dir names it, nothing when
\* it is not a directory; when output_dir is None a directory that was not
\* passed may still be on disk
OutDirsOf(mode) ==
    CASE mode = "dir" -> OutDirs
      [] mode = "missing" -> {{}}
      [] mode = "none" -> {{}, {"old.json", "old.shp"}}

\* normalize_trips and json_to_shapefile are not running
ToolsIdle ==
    /\ inputDir = <<>>
    /\ input_is_dir = TRUE
    /\ outputDir = <<>>
    /\ inplace = FALSE
    /\ merge = FALSE
    /\ failures = <<>>
    /\ processed = 0
    /\ runs = 0
    /\ shapefiles = <<>>

\* the state in which validate_raw is entered
Entry ==
    /\ outMode \in {"none", "missing", "dir"}
    /\ outDir \in OutDirsOf(outMode)
    /\ outDir0 = outDir
    /\ delete_orphans \in BOOLEAN
    /\ json_files = <<>>
    /\ idx = 0
    /\ errors = <<>>
    /\ warnings = <<>>
    /\ stats = ZeroStats
    /\ valid_files = <<>>
    /\ parsed_names = <<>>
    /\ hashes = <<>>
    /\ slots = <<>>
    /\ out_files = <<>>
    /\ exc = NoExc
    /\ result = NoResult

\* validate_raw called on its own, on an existing raw directory
Init ==
    /\ rawDir \in RawDirs
    /\ Entry
    /\ pc = "start"
    /\ raw_is_dir = TRUE
    /\ strict = FALSE
    /\ exit_code = -1
    /\ arg = NoCall
    /\ ret = NoCall
    /\ ToolsIdle

\* Mutant of PatternWarnings: a name that does not match goes unreported
PatternWarnings_Silent(w, fp, parts) == w

\* lines 142-147: the warning for a name that does not match
PatternWarnings(w, fp, parts) ==
    IF ~parts.ok
    THEN Append(w, Msg("bad_pattern", <<fp>>, <<>>, "", 0, 0, 0))
    ELSE w

\* Mutant of RecordParsedName: an unparsed name is recorded too
RecordParsedName_Always(pn, fp, parts) == Append(pn, [fp |-> fp, parts |-> parts])

\* lines 164-165: parsed_names[fp] = parts, only for a name that parsed
RecordParsedName(pn, fp, parts) ==
    IF parts.ok THEN Append(pn, [fp |-> fp, parts |-> parts]) ELSE pn

\* d.setdefault(k, []).append(x)
SetDefaultAppend(d, k, x) ==
    IF \E i \in 1..Len(d) : d[i].key = k
    THEN LET i == CHOOSE j \in 1..Len(d) : d[j].key = k
         IN  [d EXCEPT ![i].paths = Append(@, x)]
    ELSE Append(d, [key |-> k, paths |-> <<x>>])

\* Mutant of NoJsonFiles: the early return is never taken
NoJsonFiles_Never(listing) == FALSE

\* line 132: not json_files
NoJsonFiles(listing) == listing = <<>>

\* lines 115-134: the listing, and the early return on an empty one
Start ==
    /\ pc = "start"
    /\ \E listing \in Listings(glob_json(DOMAIN rawDir)) :
          /\ json_files' = sorted(listing)
          /\ stats' = [stats EXCEPT !.total_files = Len(listing)]
          /\ IF NoJsonFiles(listing)
             THEN /\ warnings' = Append(warnings, Msg("no_files", <<>>, <<>>, "", 0, 0, 0))
                  /\ result' = [returned |-> TRUE, errors |-> errors,
                                warnings |-> warnings', stats |-> stats']
                  /\ pc' = "returned"
                  /\ idx' = idx
             ELSE /\ pc' = "pass1"
                  /\ idx' = 1
                  /\ UNCHANGED <<warnings, result>>
    /\ UNCHANGED <<outerVars, rawDir, outMode, outDir, outDir0, delete_orphans, errors, valid_files,
                   parsed_names, hashes, slots, out_files, exc>>

\* lines 140-165: one iteration of the pass 1 loop
Pass1Step ==
    /\ pc = "pass1"
    /\ idx <= Len(json_files)
    /\ \E ld \in json_load(rawDir[json_files[idx]]) :
       LET fp == json_files[idx]
           parts == parse_filename(Chars(fp))
           warnings1 == PatternWarnings(warnings, fp, parts)
           stats1 == IF ~parts.ok
                     THEN [stats EXCEPT !.bad_pattern = @ + 1]
                     ELSE stats
           err == validate_structure(ld.doc, fp)
       IN  IF ld.exc \in CaughtOnLoad
           THEN /\ errors' = Append(errors, Msg("bad_json", <<fp>>, <<>>, "", 0, 0, 0))
                /\ stats' = [stats1 EXCEPT !.bad_json = @ + 1]
                /\ warnings' = warnings1
                /\ idx' = idx + 1
                /\ UNCHANGED <<pc, valid_files, parsed_names, exc>>
           ELSE IF ld.exc # "none"
           THEN /\ pc' = "raised"
                /\ exc' = [type |-> ld.exc, op |-> "json.load"]
                /\ stats' = stats1
                /\ warnings' = warnings1
                /\ UNCHANGED <<errors, idx, valid_files, parsed_names>>
           ELSE IF err # NoError
           THEN /\ errors' = Append(errors, err)
                /\ stats' = [stats1 EXCEPT !.bad_structure = @ + 1]
                /\ warnings' = warnings1
                /\ idx' = idx + 1
                /\ UNCHANGED <<pc, valid_files, parsed_names, exc>>
           ELSE /\ valid_files' = Append(valid_files, fp)
                /\ parsed_names' = RecordParsedName(parsed_names, fp, parts)
                /\ stats' = stats1
                /\ warnings' = warnings1
                /\ idx' = idx + 1
                /\ UNCHANGED <<pc, errors, exc>>
    /\ UNCHANGED <<outerVars, rawDir, outMode, outDir, outDir0, delete_orphans, json_files, hashes,
                   slots, out_files, result>>

\* Mutant of Pass1End: the loop is left one file early
Pass1End_Early ==
    /\ pc = "pass1"
    /\ idx >= Len(json_files)
    /\ stats' = [stats EXCEPT !.valid_files = Len(valid_files)]
    /\ pc' = "pass2"
    /\ idx' = 1
    /\ UNCHANGED <<outerVars, rawDir, outMode, outDir, outDir0, delete_orphans, json_files, errors,
                   warnings, valid_files, parsed_names, hashes, slots, out_files,
                   exc, result>>

\* Mutant of Pass1End: valid_files counts the files with a parsed name
Pass1End_CountsParsed ==
    /\ pc = "pass1"
    /\ idx > Len(json_files)
    /\ stats' = [stats EXCEPT !.valid_files = Len(parsed_names)]
    /\ pc' = "pass2"
    /\ idx' = 1
    /\ UNCHANGED <<outerVars, rawDir, outMode, outDir, outDir0, delete_orphans, json_files, errors,
                   warnings, valid_files, parsed_names, hashes, slots, out_files,
                   exc, result>>

\* line 167, at the end of the pass 1 loop
Pass1End ==
    /\ pc = "pass1"
    /\ idx > Len(json_files)
    /\ stats' = [stats EXCEPT !.valid_files = Len(valid_files)]
    /\ pc' = "pass2"
    /\ idx' = 1
    /\ UNCHANGED <<outerVars, rawDir, outMode, outDir, outDir0, delete_orphans, json_files, errors,
                   warnings, valid_files, parsed_names, hashes, slots, out_files,
                   exc, result>>

\* file_hash(path): the digest of the bytes of the file
file_hash(fp) == sha256(rawDir[fp])

\* lines 171-173: one iteration of the hashing loop; reading the file again
\* can fail with OSError, which nothing catches
Pass2Step ==
    /\ pc = "pass2"
    /\ idx <= Len(valid_files)
    /\ \/ /\ hashes' = SetDefaultAppend(hashes, file_hash(valid_files[idx]), valid_files[idx])
          /\ idx' = idx + 1
          /\ UNCHANGED <<pc, exc>>
       \/ /\ pc' = "raised"
          /\ exc' = [type |-> "OSError", op |-> "file_hash"]
          /\ UNCHANGED <<hashes, idx>>
    /\ UNCHANGED <<outerVars, rawDir, outMode, outDir, outDir0, delete_orphans, json_files, errors,
                   warnings, stats, valid_files, parsed_names, slots, out_files,
                   result>>

\* Mutant of GroupErrors: a group of one member is reported too
RECURSIVE GroupErrors_EveryGroup(_, _)
GroupErrors_EveryGroup(d, kind) ==
    IF d = <<>> THEN <<>>
    ELSE <<Msg(kind, Head(d).paths,
               IF kind = "slot_collision" THEN Head(d).key ELSE <<>>,
               "", 0, 0, 0)>> \o GroupErrors_EveryGroup(Tail(d), kind)

\* the error strings of the groups of d with more than one member, in the
\* order of d
RECURSIVE GroupErrors(_, _)
GroupErrors(d, kind) ==
    IF d = <<>> THEN <<>>
    ELSE (IF Len(Head(d).paths) > 1
          THEN <<Msg(kind, Head(d).paths,
                     IF kind = "slot_collision" THEN Head(d).key ELSE <<>>,
                     "", 0, 0, 0)>>
          ELSE <<>>) \o GroupErrors(Tail(d), kind)

\* Mutant of GroupExtras: counts the groups, not their extra members
RECURSIVE GroupExtras_CountsClusters(_)
GroupExtras_CountsClusters(d) ==
    IF d = <<>> THEN 0
    ELSE (IF Len(Head(d).paths) > 1 THEN 1 ELSE 0)
         + GroupExtras_CountsClusters(Tail(d))

\* the sum of len(paths) - 1 over the groups of d with more than one member
RECURSIVE GroupExtras(_)
GroupExtras(d) ==
    IF d = <<>> THEN 0
    ELSE (IF Len(Head(d).paths) > 1 THEN Len(Head(d).paths) - 1 ELSE 0)
         + GroupExtras(Tail(d))

\* Mutant of Pass2Report: the duplicate errors are put in front
Pass2Report_Prepends ==
    /\ pc = "pass2"
    /\ idx > Len(valid_files)
    /\ errors' = GroupErrors(hashes, "hash_dupe") \o errors
    /\ stats' = [stats EXCEPT !.hash_dupes = @ + GroupExtras(hashes)]
    /\ pc' = "pass3"
    /\ UNCHANGED <<outerVars, rawDir, outMode, outDir, outDir0, delete_orphans, json_files, idx,
                   warnings, valid_files, parsed_names, hashes, slots, out_files,
                   exc, result>>

\* lines 175-181: the report of the content-hash duplicates
Pass2Report ==
    /\ pc = "pass2"
    /\ idx > Len(valid_files)
    /\ errors' = errors \o GroupErrors(hashes, "hash_dupe")
    /\ stats' = [stats EXCEPT !.hash_dupes = @ + GroupExtras(hashes)]
    /\ pc' = "pass3"
    /\ UNCHANGED <<outerVars, rawDir, outMode, outDir, outDir0, delete_orphans, json_files, idx,
                   warnings, valid_files, parsed_names, hashes, slots, out_files,
                   exc, result>>

\* int(s) written back: leading zeros dropped
RECURSIVE StripZeros(_)
StripZeros(s) == IF Len(s) > 1 /\ s[1] = "0" THEN StripZeros(Tail(s)) ELSE s

\* Mutant of slot_key: the numbers are normalized
slot_key_StripsZeros(parts) ==
    StripZeros(parts.device) \o Underscore \o parts.direction \o Underscore
    \o StripZeros(parts.x) \o Underscore \o StripZeros(parts.y)

\* f"{parts['device']}_{parts['direction']}_{parts['x']}_{parts['y']}"
slot_key(parts) ==
    parts.device \o Underscore \o parts.direction \o Underscore \o parts.x
    \o Underscore \o parts.y

\* lines 184-187: slots built from parsed_names in its order
RECURSIVE BuildSlots(_, _)
BuildSlots(pn, d) ==
    IF pn = <<>> THEN d
    ELSE BuildSlots(Tail(pn), SetDefaultAppend(d, slot_key(Head(pn).parts), Head(pn).fp))

\* lines 184-195: pass 3
Pass3 ==
    /\ pc = "pass3"
    /\ slots' = BuildSlots(parsed_names, <<>>)
    /\ errors' = errors \o GroupErrors(slots', "slot_collision")
    /\ stats' = [stats EXCEPT !.slot_collisions = @ + GroupExtras(slots')]
    /\ pc' = "pass4"
    /\ UNCHANGED <<outerVars, rawDir, outMode, outDir, outDir0, delete_orphans, json_files, idx,
                   warnings, valid_files, parsed_names, hashes, out_files, exc,
                   result>>

\* Mutant of raw_names: only the valid files count as raw names
raw_names_ValidOnly == Range(valid_files)

\* raw_names = {fp.name for fp in json_files}
raw_names == Range(json_files)

\* Mutant of output_dir_usable: the orphan step always runs
output_dir_usable_Always == TRUE

\* line 198: output_dir is not None and output_dir.is_dir()
output_dir_usable == outMode = "dir"

\* lines 198-200: the test on output_dir and its sorted listing
Pass4Start ==
    /\ pc = "pass4"
    /\ IF output_dir_usable
       THEN \E listing \in Listings(glob_json(outDir)) :
               /\ out_files' = sorted(listing)
               /\ idx' = 1
               /\ pc' = "pass4loop"
       ELSE /\ pc' = "return"
            /\ UNCHANGED <<out_files, idx>>
    /\ UNCHANGED <<outerVars, rawDir, outMode, outDir, outDir0, delete_orphans, json_files, errors,
                   warnings, stats, valid_files, parsed_names, hashes, slots,
                   exc, result>>

\* Mutant of unlink: the file stays on disk
unlink_Noop(dir, out_fp) == dir

\* Mutant of unlink: the whole directory is emptied
unlink_WholeDir(dir, out_fp) == {}

\* line 205: out_fp.unlink() removes the file
unlink(dir, out_fp) == dir \ {out_fp}

\* Mutant of UnlinkFails: the OSError is swallowed and the loop goes on
UnlinkFails_Swallowed ==
    /\ stats' = [stats EXCEPT !.orphans = @ + 1]
    /\ idx' = idx + 1
    /\ UNCHANGED <<outDir, pc, exc>>

\* line 205: out_fp.unlink() fails; nothing catches the OSError, which
\* leaves validate_raw after lines 202-203 have run
UnlinkFails ==
    /\ pc' = "raised"
    /\ exc' = [type |-> "OSError", op |-> "unlink"]
    /\ stats' = [stats EXCEPT !.orphans = @ + 1]
    /\ UNCHANGED <<outDir, idx>>

\* lines 200-206: one iteration of the orphan loop
Pass4Step ==
    /\ pc = "pass4loop"
    /\ idx <= Len(out_files)
    /\ LET out_fp == out_files[idx]
       IN  IF out_fp \notin raw_names
           THEN /\ warnings' = Append(warnings, Msg("orphan", <<out_fp>>, <<>>, "", 0, 0, 0))
                /\ IF delete_orphans
                   THEN \/ /\ outDir' = unlink(outDir, out_fp)
                           /\ stats' = [stats EXCEPT !.orphans = @ + 1,
                                                     !.orphans_deleted = @ + 1]
                           /\ idx' = idx + 1
                           /\ UNCHANGED <<pc, exc>>
                        \/ UnlinkFails
                   ELSE /\ stats' = [stats EXCEPT !.orphans = @ + 1]
                        /\ idx' = idx + 1
                        /\ UNCHANGED <<outDir, pc, exc>>
           ELSE /\ idx' = idx + 1
                /\ UNCHANGED <<outDir, warnings, stats, pc, exc>>
    /\ UNCHANGED <<outerVars, rawDir, outMode, outDir0, delete_orphans, json_files, errors,
                   valid_files, parsed_names, hashes, slots, out_files, result>>

\* the end of the orphan loop
Pass4End ==
    /\ pc = "pass4loop"
    /\ idx > Len(out_files)
    /\ pc' = "return"
    /\ UNCHANGED <<outerVars, rawDir, outMode, outDir, outDir0, delete_orphans, json_files, idx,
                   errors, warnings, stats, valid_files, parsed_names, hashes,
                   slots, out_files, exc, result>>

\* line 208
Return ==
    /\ pc = "return"
    /\ result' = [returned |-> TRUE, errors |-> errors, warnings |-> warnings,
                  stats |-> stats]
    /\ pc' = "returned"
    /\ UNCHANGED <<outerVars, rawDir, outMode, outDir, outDir0, delete_orphans, json_files, idx,
                   errors, warnings, stats, valid_files, parsed_names, hashes,
                   slots, out_files, exc>>

Next ==
    \/ Start
    \/ Pass1Step
    \/ Pass1End
    \/ Pass2Step
    \/ Pass2Report
    \/ Pass3
    \/ Pass4Start
    \/ Pass4Step
    \/ Pass4End
    \/ Return

Spec == Init /\ [][Next]_vars

\* ---------------------------------------------------------------------
\* What the directories hold, stated without the run's own variables
\* ---------------------------------------------------------------------

JsonNames(S) == {n \in S : EndsWith(Chars(n), Ext_json)}

\* the *.json names of raw/
ListedRaw == JsonNames(DOMAIN rawDir)

\* the file loads and its document passes the structural validation
LoadsValid(n) ==
    \A ld \in json_load(rawDir[n]) :
        ld.exc = "none" /\ validate_structure(ld.doc, n) = NoError

\* loading the file raises
Unloadable(n) == \A ld \in json_load(rawDir[n]) : ld.exc # "none"

\* the file loads and its document fails the structural validation
BadStructure(n) ==
    \A ld \in json_load(rawDir[n]) :
        ld.exc = "none" /\ validate_structure(ld.doc, n) # NoError

ValidRaw == {n \in ListedRaw : LoadsValid(n)}

NameParses(n) == FILENAME_RE(Chars(n)).ok

\* the normalized slot (device, lower-cased direction, x, y) of a name
SlotTuple(n) ==
    LET m == FILENAME_RE(Chars(n))
    IN  <<m.device, Lower(m.direction), m.x, m.y>>

\* the groups of two or more valid files with the same bytes
ContentClusters ==
    {G \in {{n \in ValidRaw : rawDir[n] = c} : c \in Contents} : Cardinality(G) >= 2}

\* the groups of two or more valid files with a parsed name and the same slot
SlotClusters ==
    LET P == {n \in ValidRaw : NameParses(n)}
    IN  {G \in {{n \in P : SlotTuple(n) = SlotTuple(k)} : k \in P} : Cardinality(G) >= 2}

RECURSIVE SumExtras(_)
SumExtras(SS) ==
    IF SS = {} THEN 0
    ELSE LET G == CHOOSE X \in SS : TRUE
         IN  (Cardinality(G) - 1) + SumExtras(SS \ {G})

\* the positions of the returned error strings of one kind
ErrorsOfKind(k) == {i \in 1..Len(result.errors) : result.errors[i].kind = k}

WarningsOfKind(k) == {i \in 1..Len(result.warnings) : result.warnings[i].kind = k}

\* error strings of kind k: exactly one per cluster, listing each member once
OneErrorPerCluster(k, clusters) ==
    /\ \A G \in clusters :
          Cardinality({i \in ErrorsOfKind(k) :
                          /\ Range(result.errors[i].names) = G
                          /\ Len(result.errors[i].names) = Cardinality(G)}) = 1
    /\ Cardinality(ErrorsOfKind(k)) = Cardinality(clusters)

\* the *.json names of output/ at the start that raw/ does not list
Orphans0 == JsonNames(outDir0) \ ListedRaw

\* the returned report names every orphan once and nothing else as one
OrphanReport ==
    /\ \A n \in Orphans0 :
          Cardinality({i \in WarningsOfKind("orphan") : result.warnings[i].names = <<n>>}) = 1
    /\ \A i \in WarningsOfKind("orphan") : result.warnings[i].names[1] \in Orphans0
    /\ result.stats.orphans = Cardinality(Orphans0)

\* the pass 1 loop is about to handle json_files[idx]
InPass1Step == pc = "pass1" /\ idx <= Len(json_files)

\* the orphan loop is about to handle out_files[idx]
InPass4Step == pc = "pass4loop" /\ idx <= Len(out_files)

\* ---------------------------------------------------------------------
\* Claims
\* ---------------------------------------------------------------------

\* C1: in the returned report, every group of two or more valid files with
\* byte-identical content has exactly one content-duplicate error listing
\* all its members, there is no other such error, and hash_dupes is the sum
\* over those groups of (group size - 1).
C1_ContentGrouping ==
    result.returned =>
        /\ OneErrorPerCluster("hash_dupe", ContentClusters)
        /\ result.stats.hash_dupes = SumExtras(ContentClusters)

\* a run returned for three valid byte-identical files
C1_Witness ==
    /\ result.returned
    /\ \E G \in ContentClusters : Cardinality(G) = 3
    /\ result.stats.hash_dupes = 2

C3_OrphansEveryRun ==
    (result.returned /\ outMode = "dir") => OrphanReport

\* C3 amended: the same for the runs whose raw/ listing is not empty.
C3_OrphansNonEmptyListing ==
    (result.returned /\ outMode = "dir" /\ ListedRaw # {}) => OrphanReport

\* a run returned with two orphans and one output file that raw/ lists
C3_Witness ==
    /\ result.returned
    /\ outMode = "dir"
    /\ ListedRaw # {}
    /\ Cardinality(Orphans0) = 2
    /\ outDir0 \cap ListedRaw # {}
    /\ result.stats.orphans = 2

\* C4: no orphan is removed from disk before every orphan of the run has
\* been detected.
C4_DeletionAfterEnumeration ==
    outDir # outDir0 =>
        \A n \in Orphans0 :
            \E i \in 1..Len(warnings) :
                warnings[i].kind = "orphan" /\ warnings[i].names = <<n>>

\* C5: no failure to read a raw file, in pass 1 or in pass 2, leaves
\* validate_raw as an exception.
C5_ReadFailureNeverAborts ==
    ~(pc = "raised" /\ exc.op \in {"json.load", "file_hash"})

\* C6: the pass 1 step of a file whose JSON cannot be loaded adds exactly
\* one error and one to bad_json, the step of a file whose document fails
\* the structural validation adds exactly one error and one to
\* bad_structure; either leaves the file out of the valid set and of the
\* parsed names, and the loop goes on to the next file.
C6_BadFileOneError ==
    [][InPass1Step =>
          LET fp == json_files[idx]
          IN  /\ Unloadable(fp) =>
                    /\ Len(errors') = Len(errors) + 1
                    /\ stats'.bad_json = stats.bad_json + 1
                    /\ stats'.bad_structure = stats.bad_structure
                    /\ valid_files' = valid_files
                    /\ parsed_names' = parsed_names
                    /\ pc' = "pass1" /\ idx' = idx + 1
              /\ BadStructure(fp) =>
                    /\ Len(errors') = Len(errors) + 1
                    /\ stats'.bad_structure = stats.bad_structure + 1
                    /\ stats'.bad_json = stats.bad_json
                    /\ valid_files' = valid_files
                    /\ parsed_names' = parsed_names
                    /\ pc' = "pass1" /\ idx' = idx + 1]_vars

\* C7: the pass 1 step of a file whose name does not match adds one
\* warning for it, no error for the name, and one to bad_pattern, and the
\* file is still checked: with valid content it joins the valid set; in the
\* returned report it is counted in valid_files and is in a content group.
C7_BadPatternStillChecked ==
    /\ [][(InPass1Step /\ ~NameParses(json_files[idx])) =>
             LET fp == json_files[idx]
             IN  /\ warnings' = Append(warnings, Msg("bad_pattern", <<fp>>, <<>>, "", 0, 0, 0))
                 /\ stats'.bad_pattern = stats.bad_pattern + 1
                 /\ LoadsValid(fp) =>
                       /\ valid_files' = Append(valid_files, fp)
                       /\ errors' = errors
                 /\ Unloadable(fp) => valid_files' = valid_files
                 /\ BadStructure(fp) => valid_files' = valid_files]_vars
    /\ [](result.returned =>
             /\ result.stats.valid_files = Cardinality(ValidRaw)
             /\ \A n \in ValidRaw :
                   ~NameParses(n) =>
                       \E i \in 1..Len(hashes) : n \in Range(hashes[i].paths))

\* a run returned with a valid file of unmatched name counted and warned of
C7_Witness ==
    /\ result.returned
    /\ "notes.json" \in ValidRaw
    /\ result.stats.bad_pattern = 1
    /\ result.stats.valid_files = 2
    /\ \E i \in WarningsOfKind("bad_pattern") : result.warnings[i].names = <<"notes.json">>

\* C8: once pass 3 has run, every valid file whose name did not parse is a
\* member of a content group, and no such file is a member of a slot group
\* or named in a slot-collision error.
C8_UnparsedOnlyInContentGroups ==
    pc \in {"pass4", "pass4loop", "return", "returned"} =>
        /\ \A n \in ValidRaw :
              ~NameParses(n) => \E i \in 1..Len(hashes) : n \in Range(hashes[i].paths)
        /\ \A j \in 1..Len(slots) : \A n \in Range(slots[j].paths) : NameParses(n)
        /\ \A i \in 1..Len(errors) :
              errors[i].kind = "slot_collision" =>
                  \A n \in Range(errors[i].names) : NameParses(n)

\* a run returned in which a file of unmatched name is in a duplicate
\* cluster, next to a slot collision
C8_Witness ==
    /\ result.returned
    /\ \E i \in ErrorsOfKind("hash_dupe") : "notes.json" \in Range(result.errors[i].names)
    /\ ErrorsOfKind("slot_collision") # {}

\* C9: when a run with delete_orphans returns, every orphan it reported is
\* gone from output/ and orphans_deleted = orphans; without delete_orphans
\* output/ never changes, orphans_deleted stays 0, and the returned report
\* still counts the orphans.
C9_DeleteOrphans ==
    /\ (result.returned /\ delete_orphans) =>
          /\ \A i \in WarningsOfKind("orphan") : result.warnings[i].names[1] \notin outDir
          /\ result.stats.orphans_deleted = result.stats.orphans
    /\ ~delete_orphans =>
          /\ outDir = outDir0
          /\ stats.orphans_deleted = 0
          /\ (result.returned /\ outMode = "dir" /\ ListedRaw # {}) =>
                result.stats.orphans = Cardinality(Orphans0)

\* a run with delete_orphans returned after removing two orphans
C9_Witness ==
    /\ result.returned
    /\ delete_orphans
    /\ Cardinality(Orphans0) = 2
    /\ result.stats.orphans_deleted = 2
    /\ Orphans0 \cap outDir = {}

\* C10: when the removal of an orphan fails (the file is still in output/
\* after the step that had to remove it), the OSError leaves validate_raw:
\* nothing is returned, then or later, and no error string is added.
C10_UnlinkFailurePropagates ==
    /\ [][(/\ InPass4Step
           /\ delete_orphans
           /\ out_files[idx] \notin ListedRaw
           /\ out_files[idx] \in outDir') =>
              /\ pc' = "raised"
              /\ exc' = [type |-> "OSError", op |-> "unlink"]
              /\ ~result'.returned
              /\ errors' = errors
              /\ \A i \in 1..Len(warnings') : warnings'[i].kind \in {"bad_pattern", "orphan"}]_vars
    /\ [](pc = "raised" => ~result.returned)
    /\ [][pc = "raised" => pc' = "raised"]_vars

\* the removal of an orphan failed
C10_Witness ==
    /\ pc = "raised"
    /\ exc.op = "unlink"
    /\ outDir = outDir0

\* C11: when output_dir is None or not a directory the orphan step is
\* skipped: the orphan loop is never entered and output/ is never listed,
\* no orphan is counted, deleted or warned of, nothing is removed, and the
\* step adds no error.
C11_NoOutputDirSkipsOrphans ==
    /\ [](outMode # "dir" =>
             /\ pc # "pass4loop"
             /\ out_files = <<>>
             /\ outDir = outDir0
             /\ stats.orphans = 0
             /\ stats.orphans_deleted = 0
             /\ \A i \in 1..Len(warnings) : warnings[i].kind # "orphan"
             /\ result.returned =>
                   /\ result.stats.orphans = 0
                   /\ result.stats.orphans_deleted = 0
                   /\ WarningsOfKind("orphan") = {})
    /\ [][(pc = "pass4" /\ outMode # "dir") =>
             /\ errors' = errors
             /\ warnings' = warnings
             /\ pc' = "return"]_vars

\* a run with delete_orphans and no output_dir returned while a directory
\* with an unlisted *.json file is on disk
C11_Witness ==
    /\ result.returned
    /\ outMode = "none"
    /\ delete_orphans
    /\ ListedRaw # {}
    /\ outDir = {"old.json", "old.shp"}

\* C12: when raw/ lists no *.json file the run returns at once, from the
\* listing, with no error, the single warning "no files found" and every
\* counter at zero.
C12_EmptyListingReturnsAtOnce ==
    ListedRaw = {} =>
        /\ pc \in {"start", "returned"}
        /\ pc = "returned" =>
              /\ result.returned
              /\ result.errors = <<>>
              /\ Len(result.warnings) = 1
              /\ result.warnings[1].kind = "no_files"
              /\ result.stats =
                    [total_files |-> 0, valid_files |-> 0, bad_pattern |-> 0,
                     bad_json |-> 0, bad_structure |-> 0, hash_dupes |-> 0,
                     slot_collisions |-> 0, orphans |-> 0, orphans_deleted |-> 0]

\* a run over an empty raw/ returned while output/ holds files
C12_Witness ==
    /\ result.returned
    /\ ListedRaw = {}
    /\ outMode = "dir"
    /\ delete_orphans
    /\ JsonNames(outDir) # {}

\* ---------------------------------------------------------------------
\* main: the command line entry point around validate_raw
\* ---------------------------------------------------------------------

\* the raw directories main is run on hold at most this many files
MaxMainRawFiles == 2

\* Mutant of is_dir: every path counts as a directory
is_dir_Always(exists) == TRUE

\* line 234: raw_dir.is_dir()
is_dir(exists) == exists

\* Mutant of ExitCode: --strict is ignored
ExitCode_IgnoresStrict(errs, warns, strictFlag) == IF errs # <<>> THEN 1 ELSE 0

\* lines 274-278: the exit code computed from the report
ExitCode(errs, warns, strictFlag) ==
    IF errs # <<>> THEN 1
    ELSE IF warns # <<>> /\ strictFlag THEN 1
    ELSE 0

\* main is entered with parsed arguments; a raw_dir that is no directory
\* has nothing in it
InitMain ==
    /\ raw_is_dir \in BOOLEAN
    /\ rawDir \in (IF raw_is_dir THEN RawDirsUpTo(MaxMainRawFiles) ELSE {<<>>})
    /\ Entry
    /\ strict \in BOOLEAN
    /\ pc = "main"
    /\ exit_code = -1
    /\ arg = NoCall
    /\ ret = NoCall
    /\ ToolsIdle

\* lines 233-240: the directory check, then the call of validate_raw
MainStart ==
    /\ pc = "main"
    /\ IF ~is_dir(raw_is_dir)
       THEN /\ exit_code' = 1
            /\ pc' = "exited"
       ELSE /\ pc' = "start"
            /\ exit_code' = exit_code
    /\ UNCHANGED <<rawDir, outMode, outDir, outDir0, delete_orphans, json_files, idx,
                   errors, warnings, stats, valid_files, parsed_names, hashes,
                   slots, out_files, exc, result, raw_is_dir, strict, arg, ret, toolVars>>

\* lines 242-278: the report is printed from the returned tuple and the
\* exit code is returned
MainExit ==
    /\ pc = "returned"
    /\ exit_code' = ExitCode(result.errors, result.warnings, strict)
    /\ pc' = "exited"
    /\ UNCHANGED <<rawDir, outMode, outDir, outDir0, delete_orphans, json_files, idx,
                   errors, warnings, stats, valid_files, parsed_names, hashes,
                   slots, out_files, exc, result, raw_is_dir, strict, arg, ret, toolVars>>

NextMain ==
    \/ MainStart
    \/ Start
    \/ Pass1Step
    \/ Pass1End
    \/ Pass2Step
    \/ Pass2Report
    \/ Pass3
    \/ Pass4Start
    \/ Pass4Step
    \/ Pass4End
    \/ Return
    \/ MainExit

SpecMain == InitMain /\ [][NextMain]_vars

\* ---------------------------------------------------------------------
\* C13: main returns 0 exactly when the raw directory exists, the report
\* has no errors, and there are no warnings or strict mode is off; it
\* returns 1 when the report has an error, or has a warning under strict
\* mode, or the raw directory does not exist.  main returns nothing else,
\* and before it returns no exit code is set.
\* ---------------------------------------------------------------------
C13_ExitCode ==
    /\ pc # "exited" => exit_code = -1
    /\ pc = "exited" =>
          /\ exit_code \in {0, 1}
          /\ exit_code = 0 <=>
                /\ raw_is_dir
                /\ result.returned
                /\ result.errors = <<>>
                /\ (result.warnings = <<>> \/ ~strict)
          /\ ~raw_is_dir => exit_code = 1
          /\ Len(result.errors) > 0 => exit_code = 1
          /\ (Len(result.warnings) > 0 /\ strict) => exit_code = 1

\* a strict run over a directory whose only fault is a warning exits with 1
C13_Witness ==
    /\ pc = "exited"
    /\ raw_is_dir
    /\ strict
    /\ result.errors = <<>>
    /\ Len(result.warnings) > 0
    /\ ListedRaw # {}
    /\ exit_code = 1

\* ---------------------------------------------------------------------
\* C14: when the raw directory does not exist main fails at once with
\* exit code 1: validate_raw is never entered, so there is no report (no
\* errors, warnings or counters), nothing of output/ is listed and
\* nothing is deleted, whatever output_dir and delete_orphans are.
\* ---------------------------------------------------------------------
C14_MissingRawDirFailsAtOnce ==
    ~raw_is_dir =>
        /\ pc \in {"main", "exited"}
        /\ pc = "exited" => exit_code = 1
        /\ result = NoResult
        /\ errors = <<>>
        /\ warnings = <<>>
        /\ stats = ZeroStats
        /\ json_files = <<>>
        /\ out_files = <<>>
        /\ outDir = outDir0

\* the failure with an output directory full of orphans and deletion asked for
C14_Witness ==
    /\ ~raw_is_dir
    /\ pc = "exited"
    /\ outMode = "dir"
    /\ delete_orphans
    /\ JsonNames(outDir) # {}

\* ---------------------------------------------------------------------
\* parse_filename called on its own
\* ---------------------------------------------------------------------

\* the digit strings tried as device, x and y have at most this many digits
MaxDigits == 2

ParseDigits == {"0", "7"}

RECURSIVE DigitStrsOfLen(_)
DigitStrsOfLen(n) ==
    IF n = 0 THEN {<<>>}
    ELSE {<<d>> \o s : d \in ParseDigits, s \in DigitStrsOfLen(n - 1)}

DigitStrs == UNION {DigitStrsOfLen(n) : n \in 1..MaxDigits}

\* what may stand where a number belongs: digit strings, and strings that
\* are not numbers (empty, letters, a character before or after the digits)
NumWords == DigitStrs \cup {<<>>, <<"a", "b", "c">>, <<"a", "7">>, <<"7", "a">>}

\* what may stand where the direction belongs
DirWords ==
    {KW_incoming, KW_outgoing,
     <<"I", "N", "C", "O", "M", "I", "N", "G">>,
     <<"O", "u", "t", "g", "o", "i", "n", "g">>,
     <<"i", "n", "C", "o", "m", "i", "n", "G">>,
     <<"d", "a", "t", "a">>,
     <<>>}

\* what may stand where the extension belongs
ExtWords ==
    {Ext_json,
     <<".", "J", "S", "O", "N">>,
     <<".", "J", "s", "o", "n">>,
     <<".", "c", "s", "v">>,
     <<".", "j", "s", "o", "n", "\n">>,
     <<".", "j", "s", "o", "n", "x">>,
     <<>>}

\* device + '_' + direction + '_' + x + '_' + y + ext
BuildName(p) ==
    p.device \o Underscore \o p.direction \o Underscore \o p.x \o Underscore \o p.y \o p.ext

NotBuilt == [built |-> FALSE, device |-> <<>>, direction |-> <<>>, x |-> <<>>, y |-> <<>>, ext |-> <<>>]

\* names that are not built from five pieces
BareNames == {<<>>, <<"d", "a", "t", "a", ".", "j", "s", "o", "n">>, <<"7", "_", "0", "_", "0", ".", "j", "s", "o", "n">>}

\* the calls parse_filename(name) that are tried, with nums where a number
\* belongs; from tells how the name was built
ParseCalls(nums) ==
    {[fn |-> "parse_filename", name |-> BuildName(p), from |-> p] :
        p \in [built : {TRUE}, device : nums, direction : DirWords,
               x : nums, y : nums, ext : ExtWords]}
    \cup {[fn |-> "parse_filename", name |-> n, from |-> NotBuilt] : n \in BareNames}

\* validate_raw is not running
Idle ==
    /\ rawDir = <<>>
    /\ outMode = "none"
    /\ outDir = {}
    /\ outDir0 = {}
    /\ delete_orphans = FALSE
    /\ json_files = <<>>
    /\ idx = 0
    /\ errors = <<>>
    /\ warnings = <<>>
    /\ stats = ZeroStats
    /\ valid_files = <<>>
    /\ parsed_names = <<>>
    /\ hashes = <<>>
    /\ slots = <<>>
    /\ out_files = <<>>
    /\ exc = NoExc
    /\ result = NoResult
    /\ raw_is_dir = TRUE
    /\ strict = FALSE
    /\ exit_code = -1
    /\ ToolsIdle

InitParse ==
    /\ Idle
    /\ pc = "call"
    /\ arg \in ParseCalls(NumWords)
    /\ ret = NoCall

\* lines 47-57: parse_filename(name) returns
CallParseFilename ==
    /\ pc = "call"
    /\ arg.fn = "parse_filename"
    /\ ret' = [fn |-> "parse_filename", value |-> parse_filename(arg.name)]
    /\ pc' = "done"
    /\ UNCHANGED <<rawDir, outMode, outDir, outDir0, delete_orphans, json_files, idx,
                   errors, warnings, stats, valid_files, parsed_names, hashes,
                   slots, out_files, exc, result, raw_is_dir, strict, exit_code, arg, toolVars>>

NextParse == CallParseFilename

SpecParse == InitParse /\ [][NextParse]_vars

\* s is a non-empty string of decimal digits
IsNumber(s) == Len(s) > 0 /\ \A i \in 1..Len(s) : s[i] \in Digits

\* s is 'incoming' or 'outgoing' in some letter case
IsDirection(s) == Lower(s) \in {KW_incoming, KW_outgoing}

ParseReturned == pc = "done" /\ arg.fn = "parse_filename"

\* the result for a well-formed name holds the pieces it was built from
C15_RoundTrip ==
    (/\ ParseReturned
     /\ arg.from.built
     /\ IsNumber(arg.from.device) /\ IsNumber(arg.from.x) /\ IsNumber(arg.from.y)
     /\ IsDirection(arg.from.direction)
     /\ arg.from.ext = Ext_json)
    => ret.value = [ok |-> TRUE, device |-> arg.from.device,
                    direction |-> Lower(arg.from.direction),
                    x |-> arg.from.x, y |-> arg.from.y]

\* the result is absent or has all four fields
C15_NeverPartial ==
    ParseReturned =>
        \/ ret.value = NoParts
        \/ /\ ret.value.ok
           /\ IsNumber(ret.value.device) /\ IsNumber(ret.value.x) /\ IsNumber(ret.value.y)
           /\ ret.value.direction \in {KW_incoming, KW_outgoing}

\* the names the claim says have no parse
C15_MustBeAbsent ==
    \/ arg.name = <<>>
    \/ /\ arg.from.built
       /\ \/ arg.from.ext # Ext_json
          \/ ~IsNumber(arg.from.device)
          \/ ~IsNumber(arg.from.x)
          \/ ~IsNumber(arg.from.y)
          \/ ~IsDirection(arg.from.direction)

\* ---------------------------------------------------------------------
\* C15: parse_filename round trip.  A name device_direction_x_y.json with
\* non-empty digit strings and direction 'incoming' or 'outgoing' in any
\* letter case parses to exactly those device, x, y strings and the
\* lower-cased direction; the empty string, a wrong extension, a
\* non-numeric device or coordinate and a missing direction keyword give
\* absent; the result is never partial.
\* ---------------------------------------------------------------------
C15_ParseRoundTrip ==
    /\ C15_RoundTrip
    /\ C15_NeverPartial
    /\ (ParseReturned /\ C15_MustBeAbsent) => ~ret.value.ok

\* ---------------------------------------------------------------------
\* C16: the match is anchored at both ends with a literal '.json': only
\* the direction is compared without regard to case, so a name ending in
\* '.JSON' or '.Json', or with a character before the device digits or
\* after the '.json' suffix, gives absent.
\* ---------------------------------------------------------------------
C16_LiteralSuffixAnchored ==
    (/\ ParseReturned
     /\ arg.from.built
     /\ \/ arg.from.ext \in {<<".", "J", "S", "O", "N">>, <<".", "J", "s", "o", "n">>}
        \/ Len(arg.from.ext) > Len(Ext_json) /\ SubSeq(arg.from.ext, 1, Len(Ext_json)) = Ext_json
        \/ Len(arg.from.device) > 0 /\ arg.from.device[1] \notin Digits)
    => ~ret.value.ok

\* ---------------------------------------------------------------------
\* validate_structure called on its own
\* ---------------------------------------------------------------------

\* the nodes arrays tried have at most this many rows
MaxRows == 3

JStrs(fields) == JArr([k \in 1..Len(fields) |-> JStr(fields[k])])

\* the values tried as doc["nodeFormat"]
NodeFormats ==
    {JStrs(STANDARD_NODE_FORMAT),
     JStrs(EXPECTED_FIELDS),
     JStrs(<<<<"I", "D">>, F_parentId, F_trips, F_frc, F_geometry, F_processingFailures, F_privacyTrims>>),
     JStrs(<<F_parentId, F_id, F_trips, F_frc, F_geometry, F_processingFailures, F_privacyTrims>>),
     JStrs(<<F_id, F_parentId, F_trips, F_frc, F_geometry, F_processingFailures>>),
     JStrs(<<<<"a">>, <<"b">>>>),
     JArr(<<JStr(F_id), JStr(F_parentId), JStr(F_trips), JNum(3), JStr(F_geometry),
            JStr(F_processingFailures), JStr(F_privacyTrims)>>),
     JArr(<<>>),
     JStr(F_id),
     JNull}

\* the values tried as one element of doc["nodes"]
Rows ==
    {make_node(JNum(0), JNull, JNum(100), JNum(3), SAMPLE_COORDS),
     JArr(<<JNum(1), JNum(2)>>),
     JArr(<<JNum(1), JNum(2), JNum(3), JNum(4), JNum(5), JNum(6), JNum(7), JNum(8)>>),
     JArr(<<>>),
     JNum(1),
     JObj([id |-> JNum(1)])}

\* the values tried as doc["nodes"]
NodesValues ==
    {JArr(rows) : rows \in UNION {[1..n -> Rows] : n \in 0..MaxRows}}
    \cup {JNull, JObj([id |-> JNum(1)])}

\* the documents tried
Docs ==
    {JArr(<<>>), JNull, JStr(F_id), JNum(1), JObj([wrong |-> JBool(TRUE)])}
    \cup {JObj([nodes |-> ns]) : ns \in {JArr(<<>>), JNull}}
    \cup {JObj([nodeFormat |-> nf]) : nf \in NodeFormats}
    \cup {JObj([nodeFormat |-> nf, nodes |-> ns]) : nf \in NodeFormats, ns \in NodesValues}

InitStruct ==
    /\ Idle
    /\ pc = "call"
    /\ arg \in {[fn |-> "validate_structure", doc |-> d, name |-> "x"] : d \in Docs}
    /\ ret = NoCall

\* lines 69-100: validate_structure(doc, path) returns
CallValidateStructure ==
    /\ pc = "call"
    /\ arg.fn = "validate_structure"
    /\ ret' = [fn |-> "validate_structure", value |-> validate_structure(arg.doc, arg.name)]
    /\ pc' = "done"
    /\ UNCHANGED <<rawDir, outMode, outDir, outDir0, delete_orphans, json_files, idx,
                   errors, warnings, stats, valid_files, parsed_names, hashes,
                   slots, out_files, exc, result, raw_is_dir, strict, exit_code, arg, toolVars>>

NextStruct == CallValidateStructure

SpecStruct == InitStruct /\ [][NextStruct]_vars

StructReturned == pc = "done" /\ arg.fn = "validate_structure"

\* the seven conditions of a valid document, each stated on its own
IsObject(doc) == doc.t = "dict"

HasKey(doc, k) == IsObject(doc) /\ k \in DOMAIN doc.v

FormatIsArray(doc) == HasKey(doc, "nodeFormat") /\ doc.v.nodeFormat.t = "list"

NodesIsArray(doc) == HasKey(doc, "nodes") /\ doc.v.nodes.t = "list"

FormatIsCanonical(doc) ==
    /\ FormatIsArray(doc)
    /\ Len(doc.v.nodeFormat.v) = 7
    /\ \A k \in 1..7 :
          /\ doc.v.nodeFormat.v[k].t = "str"
          /\ Lower(doc.v.nodeFormat.v[k].v) = EXPECTED_FIELDS[k]

\* row i (1-based) of nodes is an array of len(nodeFormat) elements
RowFits(doc, i) ==
    /\ doc.v.nodes.v[i].t = "list"
    /\ Len(doc.v.nodes.v[i].v) = Len(doc.v.nodeFormat.v)

RowsFit(doc) ==
    /\ FormatIsArray(doc)
    /\ NodesIsArray(doc)
    /\ \A i \in 1..Len(doc.v.nodes.v) : RowFits(doc, i)

AllValid(doc) ==
    /\ IsObject(doc)
    /\ HasKey(doc, "nodeFormat")
    /\ HasKey(doc, "nodes")
    /\ FormatIsArray(doc)
    /\ NodesIsArray(doc)
    /\ FormatIsCanonical(doc)
    /\ RowsFit(doc)

\* ---------------------------------------------------------------------
\* C17: validate_structure returns no error if and only if the document
\* is an object with keys nodeFormat and nodes, both arrays, nodeFormat
\* lower-cased equal to the canonical seven fields in order, and every
\* row of nodes an array of len(nodeFormat) elements; otherwise it
\* returns an error message, which is not empty.
\* ---------------------------------------------------------------------
C17_ValidIffNoError ==
    StructReturned =>
        /\ ret.value = NoError <=> AllValid(arg.doc)
        /\ ret.value # NoError =>
              /\ ret.value.kind = "structure"
              /\ ret.value.check # ""
              /\ ret.value.names = <<arg.name>>

\* a camelCase document of two fitting rows is accepted
C17_Witness ==
    /\ StructReturned
    /\ ret.value = NoError
    /\ arg.doc.v.nodeFormat = JStrs(STANDARD_NODE_FORMAT)
    /\ Len(arg.doc.v.nodes.v) = 2

\* the lowest row (1-based) that does not fit
LowestBadRow(doc) ==
    CHOOSE i \in 1..Len(doc.v.nodes.v) :
        /\ ~RowFits(doc, i)
        /\ \A j \in 1..(i - 1) : RowFits(doc, j)

\* the message of the earliest failing check in the order of the claim
FirstFailure(doc, name) ==
    CASE ~IsObject(doc) -> StructureError(name, "not_object", 0, 0, 0)
      [] IsObject(doc) /\ ~HasKey(doc, "nodeFormat") ->
            StructureError(name, "missing_nodeFormat", 0, 0, 0)
      [] HasKey(doc, "nodeFormat") /\ ~HasKey(doc, "nodes") ->
            StructureError(name, "missing_nodes", 0, 0, 0)
      [] HasKey(doc, "nodeFormat") /\ HasKey(doc, "nodes") /\ ~FormatIsArray(doc) ->
            StructureError(name, "nodeFormat_not_array", 0, 0, 0)
      [] FormatIsArray(doc) /\ HasKey(doc, "nodes") /\ ~NodesIsArray(doc) ->
            StructureError(name, "nodes_not_array", 0, 0, 0)
      [] FormatIsArray(doc) /\ NodesIsArray(doc) /\ ~FormatIsCanonical(doc) ->
            StructureError(name, "schema", 0, 0, 0)
      [] FormatIsCanonical(doc) /\ NodesIsArray(doc) /\ ~RowsFit(doc) ->
            LET b == LowestBadRow(doc)
                row == doc.v.nodes.v[b]
            IN  IF row.t # "list"
                THEN StructureError(name, "node_not_array", b - 1, 0, 0)
                ELSE StructureError(name, "node_len", b - 1, Len(row.v), Len(doc.v.nodeFormat.v))
      [] AllValid(doc) -> NoError

\* which of the seven checks the document fails (a check that cannot
\* be made because an earlier one failed counts as failed)
FailedChecks(doc) ==
    {k \in 1..7 :
        \/ k = 1 /\ ~IsObject(doc)
        \/ k = 2 /\ ~HasKey(doc, "nodeFormat")
        \/ k = 3 /\ ~HasKey(doc, "nodes")
        \/ k = 4 /\ ~FormatIsArray(doc)
        \/ k = 5 /\ ~NodesIsArray(doc)
        \/ k = 6 /\ ~FormatIsCanonical(doc)
        \/ k = 7 /\ ~RowsFit(doc)}

\* ---------------------------------------------------------------------
\* C18: validate_structure returns the message of the first failing check
\* only, in the order object, key nodeFormat, key nodes, nodeFormat is an
\* array, nodes is an array, schema, rows; for rows the lowest offending
\* index is reported (0-based), with the row's length and the expected one.
\* ---------------------------------------------------------------------
C18_FirstFailureDecides ==
    StructReturned => ret.value = FirstFailure(arg.doc, arg.name)

\* nodes is not an array and the schema does not match: the earlier check
\* (nodes) gives the message
C18_Witness ==
    /\ StructReturned
    /\ ret.value.check = "nodes_not_array"
    /\ FailedChecks(arg.doc) = {5, 6, 7}

\* rows 1 and 2 (0-based) both fail; row 1 is reported with its length
C18_RowWitness ==
    /\ StructReturned
    /\ ret.value.check = "node_len"
    /\ ret.value.i = 1
    /\ ret.value.n = 2
    /\ ret.value.m = 7
    /\ Len(arg.doc.v.nodes.v) = 3
    /\ ~RowFits(arg.doc, 3)

\* ---------------------------------------------------------------------
\* Slot keys
\* ---------------------------------------------------------------------

\* the (device, direction, x, y) results parse_filename can give for
\* numbers of at most MaxDigits digits
SlotParts ==
    [ok : {TRUE}, device : DigitStrs, direction : {KW_incoming, KW_outgoing},
     x : DigitStrs, y : DigitStrs]

\* different parts never get the same key
SlotKeyInjective ==
    Cardinality({slot_key(p) : p \in SlotParts}) = Cardinality(SlotParts)

\* the names filed under entry e of slots
SlotPaths(e) == Range(slots[e].paths)

\* ---------------------------------------------------------------------
\* C19: slot keys are the exact captured strings.  Two files are filed
\* under the same slot only if device, x and y are the same strings (and
\* the direction the same up to case): names that differ in zero padding
\* are in different slots and never share a slot-collision error, and
\* different (device, direction, x, y) tuples never get the same key.
\* ---------------------------------------------------------------------
C19_SlotKeysExact ==
    /\ SlotKeyInjective
    /\ \A e1, e2 \in 1..Len(slots) :
          \A a \in SlotPaths(e1), b \in SlotPaths(e2) :
              (e1 = e2) <=> (SlotTuple(a) = SlotTuple(b))
    /\ result.returned =>
          /\ \A i \in ErrorsOfKind("slot_collision") :
                /\ \A a, b \in Range(result.errors[i].names) : SlotTuple(a) = SlotTuple(b)
                /\ ~({"1_incoming_0_0.json", "1_incoming_00_0.json"}
                        \subseteq Range(result.errors[i].names))
          /\ {n \in ValidRaw : NameParses(n)} = {"1_incoming_0_0.json", "1_incoming_00_0.json"}
                => result.stats.slot_collisions = 0

\* a run returned for valid files with x '0' and x '00': two slots, no collision
C19_Witness ==
    /\ result.returned
    /\ ValidRaw = {"1_incoming_0_0.json", "1_incoming_00_0.json"}
    /\ Len(slots) = 2
    /\ ErrorsOfKind("slot_collision") = {}
    /\ result.stats.slot_collisions = 0

\* ---------------------------------------------------------------------
\* C20: a slot collision is reported only when the files sharing the slot
\* differ in content; same-slot files that are byte-identical are
\* reported as content-hash duplicates.
\* ---------------------------------------------------------------------
C20_CollisionMeansDifferentContent ==
    result.returned =>
        /\ \A i \in ErrorsOfKind("slot_collision") :
              \E a, b \in Range(result.errors[i].names) : rawDir[a] # rawDir[b]
        /\ \A G \in SlotClusters :
              (\A a, b \in G : rawDir[a] = rawDir[b]) =>
                  \E i \in ErrorsOfKind("hash_dupe") : G \subseteq Range(result.errors[i].names)

\* ---------------------------------------------------------------------
\* The report a file set calls for, computed from the directories alone
\* ---------------------------------------------------------------------

\* the names of S in ascending order
Ascending(S) ==
    [i \in 1..Cardinality(S) |->
        CHOOSE n \in S : Cardinality({m \in S : StrLess(Chars(m), Chars(n))}) = i - 1]

\* the indices of I in ascending order
AscendingIdx(I) ==
    [k \in 1..Cardinality(I) |-> CHOOSE i \in I : Cardinality({j \in I : j < i}) = k - 1]

\* the document of a file that loads
DocOf(n) == (CHOOSE ld \in json_load(rawDir[n]) : TRUE).doc

\* the per-file errors of the names of seq, in its order
RECURSIVE FileErrors(_)
FileErrors(seq) ==
    IF seq = <<>> THEN <<>>
    ELSE LET n == Head(seq)
         IN  (IF Unloadable(n) THEN <<Msg("bad_json", <<n>>, <<>>, "", 0, 0, 0)>>
              ELSE IF BadStructure(n) THEN <<validate_structure(DocOf(n), n)>>
              ELSE <<>>) \o FileErrors(Tail(seq))

\* the names of seq that satisfy neither Unloadable nor BadStructure
RECURSIVE ValidOf(_)
ValidOf(seq) ==
    IF seq = <<>> THEN <<>>
    ELSE (IF LoadsValid(Head(seq)) THEN <<Head(seq)>> ELSE <<>>) \o ValidOf(Tail(seq))

RECURSIVE ParsedOf(_)
ParsedOf(seq) ==
    IF seq = <<>> THEN <<>>
    ELSE (IF NameParses(Head(seq)) THEN <<Head(seq)>> ELSE <<>>) \o ParsedOf(Tail(seq))

\* the members of seq with the bytes of n, in the order of seq
RECURSIVE SameBytes(_, _)
SameBytes(seq, n) ==
    IF seq = <<>> THEN <<>>
    ELSE (IF rawDir[Head(seq)] = rawDir[n] THEN <<Head(seq)>> ELSE <<>>)
         \o SameBytes(Tail(seq), n)

\* the members of seq with the slot of n, in the order of seq
RECURSIVE SameSlot(_, _)
SameSlot(seq, n) ==
    IF seq = <<>> THEN <<>>
    ELSE (IF SlotTuple(Head(seq)) = SlotTuple(n) THEN <<Head(seq)>> ELSE <<>>)
         \o SameSlot(Tail(seq), n)

\* one content-duplicate error per cluster, clusters ordered by their first
\* member, members in the order of seq
DupeErrors(seq) ==
    LET firsts == {i \in 1..Len(seq) :
                      /\ Len(SameBytes(seq, seq[i])) > 1
                      /\ SameBytes(seq, seq[i])[1] = seq[i]}
        order == AscendingIdx(firsts)
    IN  [k \in 1..Len(order) |->
            Msg("hash_dupe", SameBytes(seq, seq[order[k]]), <<>>, "", 0, 0, 0)]

\* the key printed for the slot of n
PrintedSlot(n) ==
    LET t == SlotTuple(n)
    IN  t[1] \o <<"_">> \o t[2] \o <<"_">> \o t[3] \o <<"_">> \o t[4]

\* one slot-collision error per slot group, ordered the same way
CollisionErrors(seq) ==
    LET firsts == {i \in 1..Len(seq) :
                      /\ Len(SameSlot(seq, seq[i])) > 1
                      /\ SameSlot(seq, seq[i])[1] = seq[i]}
        order == AscendingIdx(firsts)
    IN  [k \in 1..Len(order) |->
            Msg("slot_collision", SameSlot(seq, seq[order[k]]), PrintedSlot(seq[order[k]]),
                "", 0, 0, 0)]

\* one warning of a kind per name of seq
OneWarningEach(kind, seq) ==
    [i \in 1..Len(seq) |-> Msg(kind, <<seq[i]>>, <<>>, "", 0, 0, 0)]

RECURSIVE UnparsedOf(_)
UnparsedOf(seq) ==
    IF seq = <<>> THEN <<>>
    ELSE (IF ~NameParses(Head(seq)) THEN <<Head(seq)>> ELSE <<>>) \o UnparsedOf(Tail(seq))

\* the orphans a run reports: none without a usable output directory
ReportedOrphans == IF outMode = "dir" THEN Orphans0 ELSE {}

\* the report of a run over rawDir and the output directory as it was
FileSetReport ==
    LET listed == Ascending(ListedRaw)
        valid == ValidOf(listed)
    IN  IF ListedRaw = {}
        THEN [returned |-> TRUE, errors |-> <<>>,
              warnings |-> <<Msg("no_files", <<>>, <<>>, "", 0, 0, 0)>>,
              stats |-> ZeroStats]
        ELSE [returned |-> TRUE,
              errors |-> FileErrors(listed) \o DupeErrors(valid)
                         \o CollisionErrors(ParsedOf(valid)),
              warnings |-> OneWarningEach("bad_pattern", UnparsedOf(listed))
                           \o OneWarningEach("orphan", Ascending(ReportedOrphans)),
              stats |->
                 [total_files |-> Cardinality(ListedRaw),
                  valid_files |-> Cardinality(ValidRaw),
                  bad_pattern |-> Cardinality({n \in ListedRaw : ~NameParses(n)}),
                  bad_json |-> Cardinality({n \in ListedRaw : Unloadable(n)}),
                  bad_structure |-> Cardinality({n \in ListedRaw : BadStructure(n)}),
                  hash_dupes |-> SumExtras(ContentClusters),
                  slot_collisions |-> SumExtras(SlotClusters),
                  orphans |-> Cardinality(ReportedOrphans),
                  orphans_deleted |-> IF delete_orphans THEN Cardinality(ReportedOrphans) ELSE 0]]

\* ---------------------------------------------------------------------
\* C21: determinism.  The report a run returns (errors, warnings and
\* counters, with the order of the clusters, of the slot groups and of the
\* names inside each) is the one report fixed by the file names and
\* contents, whatever order the two directory listings came in; so two
\* runs over the same files return the same report.
\* ---------------------------------------------------------------------
C21_ReportFixedByFileSet ==
    result.returned => result = FileSetReport

\* a run returned over three raw files with a duplicate cluster, a slot
\* collision and two orphans
C21_Witness ==
    /\ result.returned
    /\ Cardinality(ListedRaw) = 3
    /\ ContentClusters # {}
    /\ SlotClusters # {}
    /\ outMode = "dir"
    /\ Cardinality(Orphans0) >= 2

\* ---------------------------------------------------------------------
\* C24: counter partition.  At the return of a run with a non-empty
\* listing total_files == valid_files + bad_json + bad_structure, each
\* listed file being counted in exactly one of the three; bad_pattern is
\* counted on its own, between 0 and total_files, so a file can be
\* counted in bad_pattern and also in bad_json or bad_structure.
\* ---------------------------------------------------------------------
C24_CounterPartition ==
    (result.returned /\ ListedRaw # {}) =>
        LET st == result.stats
        IN  /\ st.total_files = st.valid_files + st.bad_json + st.bad_structure
            /\ st.total_files = Cardinality(ListedRaw)
            /\ st.valid_files = Cardinality(ValidRaw)
            /\ st.bad_json = Cardinality({n \in ListedRaw : Unloadable(n)})
            /\ st.bad_structure = Cardinality({n \in ListedRaw : BadStructure(n)})
            /\ \A n \in ListedRaw :
                  Cardinality({k \in 1..3 :
                                  \/ k = 1 /\ LoadsValid(n)
                                  \/ k = 2 /\ Unloadable(n)
                                  \/ k = 3 /\ BadStructure(n)}) = 1
            /\ st.bad_pattern = Cardinality({n \in ListedRaw : ~NameParses(n)})
            /\ 0 <= st.bad_pattern /\ st.bad_pattern <= st.total_files

\* notes.json is counted in bad_pattern and in bad_structure, next to two
\* valid files
C24_Witness ==
    /\ result.returned
    /\ "notes.json" \in ListedRaw
    /\ rawDir["notes.json"] = "wrong"
    /\ result.stats.bad_pattern = 1
    /\ result.stats.bad_structure = 1
    /\ result.stats.valid_files = 2
    /\ result.stats.total_files = 3

ErrorRank(e) ==
    CASE e.kind \in {"bad_json", "structure"} -> 1
      [] e.kind = "hash_dupe" -> 2
      [] e.kind = "slot_collision" -> 3

WarningRank(w) ==
    CASE w.kind \in {"bad_pattern", "no_files"} -> 1
      [] w.kind = "orphan" -> 2

\* ---------------------------------------------------------------------
\* C26: order of the report.  In errors every per-file error (bad JSON,
\* bad structure) precedes every content-duplicate error, which precedes
\* every slot-collision error, and the per-file errors are in ascending
\* file-name order; in warnings every bad-filename warning precedes every
\* orphan warning, and the orphan warnings are in ascending file-name
\* order.  This holds of the lists at every point of a run.
\* ---------------------------------------------------------------------
C26_ReportOrder ==
    /\ \A i, j \in 1..Len(errors) :
          i < j =>
              /\ ErrorRank(errors[i]) <= ErrorRank(errors[j])
              /\ (ErrorRank(errors[i]) = 1 /\ ErrorRank(errors[j]) = 1) =>
                    StrLess(Chars(errors[i].names[1]), Chars(errors[j].names[1]))
    /\ \A i, j \in 1..Len(warnings) :
          i < j =>
              /\ WarningRank(warnings[i]) <= WarningRank(warnings[j])
              /\ (warnings[i].kind = "orphan" /\ warnings[j].kind = "orphan") =>
                    StrLess(Chars(warnings[i].names[1]), Chars(warnings[j].names[1]))
    /\ result.returned => (result.errors = errors /\ result.warnings = warnings)

\* a returned report with a per-file error, a duplicate error and a slot
\* error, and with a bad-filename warning and two orphan warnings
C26_Witness ==
    /\ result.returned
    /\ ErrorsOfKind("structure") # {}
    /\ ErrorsOfKind("hash_dupe") # {}
    /\ ErrorsOfKind("slot_collision") # {}
    /\ WarningsOfKind("bad_pattern") # {}
    /\ Cardinality(WarningsOfKind("orphan")) = 2

\* the raw files that fail JSON parsing or structural validation and have
\* a namesake in output/
FailedWithNamesake ==
    {n \in ListedRaw \cap JsonNames(outDir0) : Unloadable(n) \/ BadStructure(n)}

\* ---------------------------------------------------------------------
\* C27: the raw name set of the orphan check is the full *.json listing
\* of raw/, not the valid set: an output file named like a raw file that
\* failed JSON parsing or structural validation is never reported as an
\* orphan and never deleted.
\* ---------------------------------------------------------------------
C27_FailedRawFileIsNoOrphan ==
    /\ pc \in {"pass4", "pass4loop"} => raw_names = ListedRaw
    /\ \A n \in FailedWithNamesake :
          /\ n \in outDir
          /\ \A i \in 1..Len(warnings) :
                warnings[i].kind = "orphan" => n \notin Range(warnings[i].names)

\* a deleting run returned: the namesake of a structurally bad raw file is
\* still there while an orphan was deleted
C27_Witness ==
    /\ result.returned
    /\ outMode = "dir"
    /\ delete_orphans
    /\ FailedWithNamesake = {"1_incoming_0_0.json"}
    /\ rawDir["1_incoming_0_0.json"] = "wrong"
    /\ result.stats.orphans_deleted >= 1

\* ---------------------------------------------------------------------
\* C28: frame of validate_raw.  No step changes raw/; a step changes
\* output/ only by removing *.json files whose names are not raw *.json
\* names, and only with an output directory and delete_orphans set; so
\* files of output/ with another extension or with a raw name stay.
\* ---------------------------------------------------------------------
C28_Frame ==
    /\ [][/\ rawDir' = rawDir
          /\ outDir' \subseteq outDir
          /\ \A n \in outDir \ outDir' :
                /\ delete_orphans
                /\ outMode = "dir"
                /\ n \in JsonNames(outDir)
                /\ n \notin ListedRaw]_vars
    /\ [](\A n \in outDir0 : (n \notin JsonNames(outDir0) \/ n \in ListedRaw) => n \in outDir)
    /\ [](~delete_orphans => outDir = outDir0)

\* a deleting run returned: an orphan is gone, old.shp and the namesake of
\* a raw file are still there
C28_Witness ==
    /\ result.returned
    /\ delete_orphans
    /\ outDir0 = {"1_incoming_0_0.json", "old.json", "old.shp"}
    /\ outDir = {"1_incoming_0_0.json", "old.shp"}
    /\ "1_incoming_0_0.json" \in ListedRaw

\* ---------------------------------------------------------------------
\* validate_raw run to its end
\* ---------------------------------------------------------------------

\* the raw directories of the runs followed to their end hold at most
\* this many files
MaxLiveRawFiles == 2

InitLive ==
    /\ rawDir \in RawDirsUpTo(MaxLiveRawFiles)
    /\ Entry
    /\ pc = "start"
    /\ raw_is_dir = TRUE
    /\ strict = FALSE
    /\ exit_code = -1
    /\ arg = NoCall
    /\ ret = NoCall
    /\ ToolsIdle

\* validate_raw is sequential code on one thread: the step it is at is
\* taken.  For the body of the pass 1 loop weak fairness is written out,
\* the step being enabled exactly when the loop has a file left
\* (InPass1Step): json_load has an outcome for every content.
Fairness ==
    /\ WF_vars(Start)
    /\ ([]<>~InPass1Step \/ []<><<Pass1Step>>_vars)
    /\ WF_vars(Pass1End)
    /\ WF_vars(Pass2Step)
    /\ WF_vars(Pass2Report)
    /\ WF_vars(Pass3)
    /\ WF_vars(Pass4Start)
    /\ WF_vars(Pass4Step)
    /\ WF_vars(Pass4End)
    /\ WF_vars(Return)

SpecLive == InitLive /\ [][Next]_vars /\ Fairness

\* the run is over: it returned or an exception left it
Ended == pc \in {"returned", "raised"}

\* the files pass 1 has dealt with: each one is in valid_files or has its
\* one error
Visited == Len(valid_files) + Len(errors)

\* ---------------------------------------------------------------------
\* C30: termination.  Every run over finite directories eventually ends,
\* by returning the report or by raising.  Pass 1 goes through the listed
\* raw files in ascending name order, one file per iteration and each
\* file once, and passes 2 to 4 begin only when pass 1 has dealt with
\* every listed file.
\* ---------------------------------------------------------------------
C30_Termination ==
    /\ <>Ended
    /\ [](pc = "pass1" =>
             /\ json_files = Ascending(ListedRaw)
             /\ idx \in 1..(Len(json_files) + 1)
             /\ Visited = idx - 1)
    /\ [][(pc = "pass1" /\ pc' = "pass1") =>
             /\ idx' = idx + 1
             /\ json_files' = json_files
             /\ Visited' = Visited + 1]_vars
    /\ [][(pc = "pass1" /\ pc' \notin {"pass1", "raised"}) =>
             /\ pc' = "pass2"
             /\ idx = Len(json_files) + 1
             /\ Visited = Cardinality(ListedRaw)]_vars
    /\ [](pc \in {"pass2", "pass3", "pass4", "pass4loop", "return"} =>
             /\ stats.valid_files + stats.bad_json + stats.bad_structure = Cardinality(ListedRaw)
             /\ Range(valid_files) = ValidRaw)

\* a run over two raw files that went through all four passes and returned
C30_Witness ==
    /\ result.returned
    /\ Cardinality(ListedRaw) = 2
    /\ outMode = "dir"
    /\ result.stats.orphans >= 1
    /\ result.stats.valid_files + result.stats.bad_json = 2

\* ---------------------------------------------------------------------
\* normalize_trips
\* ---------------------------------------------------------------------

\* Bounds of the model
MaxInFiles == 2

MaxRuns == 2

\* args.round_n: its default
round_n == 2

F_trips_pct == <<"t", "r", "i", "p", "s", "_", "p", "c", "t">>

\* A float that is a multiple of 10^-round_n, counted in those units
JFloat(units) == [t |-> "float", v |-> units]

\* What a file holds: the JSON text of a document, text that is no JSON
\* (or an entry that cannot be opened), or bytes that are not UTF-8
JsonFile(doc) == [bytes |-> "json", doc |-> doc]

BrokenFile == [bytes |-> "broken", doc |-> JNull]

BadUtf8File == [bytes |-> "badutf8", doc |-> JNull]

\* a document in the standard format with one node per trips value
trips_doc(trips) ==
    JObj([nodeFormat |-> JArr([k \in 1..Len(STANDARD_NODE_FORMAT) |-> JStr(STANDARD_NODE_FORMAT[k])]),
          nodes |-> JArr([i \in 1..Len(trips) |->
                            make_node(JNum(i), JNull, trips[i], JNum(3), SAMPLE_COORDS)])])

\* read_json(path): the possible outcomes
nt_read_json(content) ==
    CASE content.bytes = "json" -> {[exc |-> "none", doc |-> content.doc]}
      [] content.bytes = "broken" -> {[exc |-> "JSONDecodeError", doc |-> JNull],
                                      [exc |-> "OSError", doc |-> JNull]}
      [] content.bytes = "badutf8" -> {[exc |-> "UnicodeDecodeError", doc |-> JNull]}

\* Mutant of nt_schema_mismatch: columns after the expected ones are ignored
nt_schema_mismatch_Prefix(node_format) ==
    \/ Len(node_format) < Len(EXPECTED_FIELDS)
    \/ \E k \in 1..Len(EXPECTED_FIELDS) :
          \/ node_format[k].t # "str"
          \/ Lower(node_format[k].v) # EXPECTED_FIELDS[k]

\* lines 52-55: lower_fields != expected
nt_schema_mismatch(node_format) ==
    \/ Len(node_format) # Len(EXPECTED_FIELDS)
    \/ \E k \in 1..Len(node_format) :
          \/ node_format[k].t # "str"
          \/ Lower(node_format[k].v) # EXPECTED_FIELDS[k]

\* validate_doc(doc, path) of normalize_trips
nt_validate_doc(doc, path) ==
    IF doc.t # "dict" THEN StructureError(path, "not_object", 0, 0, 0)
    ELSE IF "nodeFormat" \notin DOMAIN doc.v
        THEN StructureError(path, "missing_nodeFormat", 0, 0, 0)
    ELSE IF "nodes" \notin DOMAIN doc.v
        THEN StructureError(path, "missing_nodes", 0, 0, 0)
    ELSE IF doc.v.nodeFormat.t # "list"
        THEN StructureError(path, "nodeFormat_not_array", 0, 0, 0)
    ELSE IF nt_schema_mismatch(doc.v.nodeFormat.v)
        THEN StructureError(path, "schema", 0, 0, 0)
    ELSE IF doc.v.nodes.t # "list"
        THEN StructureError(path, "nodes_not_array", 0, 0, 0)
    ELSE LET nodes == doc.v.nodes.v
             expected_len == Len(doc.v.nodeFormat.v)
             b == FirstBadRow(nodes, 1, expected_len)
         IN  IF b = 0 THEN NoError
             ELSE IF nodes[b].t # "list"
                 THEN StructureError(path, "node_not_array", b - 1, 0, 0)
             ELSE StructureError(path, "node_len", b - 1,
                                 Len(nodes[b].v), expected_len)

\* "trips" is always the 3rd field
trips_index == 3

\* the values Python orders against an int; the trips columns of this model
\* hold no floats
Ordered(val) == val.t \in {"int", "bool"}

NumVal(val) == IF val.t = "bool" THEN (IF val.v THEN 1 ELSE 0) ELSE val.v

\* lines 87-91: max_trips after the nodes up to i
RECURSIVE max_trips_upto(_, _)
max_trips_upto(nodes, i) ==
    IF i = 0 THEN 0
    ELSE LET m == max_trips_upto(nodes, i - 1)
             val == nodes[i].v[trips_index]
         IN  IF val.t # "NoneType" /\ NumVal(val) > m THEN NumVal(val) ELSE m

\* round(a / b, 0) for a >= 0, b > 0
RoundDiv(a, b) == (2 * a + b) \div (2 * b)

Pow10(n) == IF n = 0 THEN 1 ELSE IF n = 1 THEN 10 ELSE 100

\* lines 96-99: the value appended to a node
trips_pct(val, max_trips, rn) ==
    IF val.t = "NoneType" \/ max_trips = 0 THEN JFloat(0)
    ELSE JFloat(RoundDiv(NumVal(val) * 100 * Pow10(rn), max_trips))

\* process_doc(doc, round_n): the exception raised ("none" if none) and the
\* document. val > max_trips raises TypeError for a value that is no number.
process_doc(doc, rn) ==
    LET nodes == doc.v.nodes.v
        max_trips == max_trips_upto(nodes, Len(nodes))
    IN  IF \E i \in 1..Len(nodes) :
              nodes[i].v[trips_index].t # "NoneType" /\ ~Ordered(nodes[i].v[trips_index])
        THEN [exc |-> "TypeError", doc |-> doc]
        ELSE [exc |-> "none",
              doc |-> JObj([doc.v EXCEPT
                        !.nodes = JArr([i \in 1..Len(nodes) |->
                                    JArr(Append(nodes[i].v,
                                         trips_pct(nodes[i].v[trips_index], max_trips, rn)))]),
                        !.nodeFormat = JArr(Append(doc.v.nodeFormat.v, JStr(F_trips_pct)))])]

\* write_json(path, doc): the file holds the document, or OSError is raised
\* and the file is as it was (it could not be opened) or cut short
write_json(doc) ==
    {[exc |-> "none", kept |-> FALSE, content |-> JsonFile(doc)],
     [exc |-> "OSError", kept |-> TRUE, content |-> BrokenFile],
     [exc |-> "OSError", kept |-> FALSE, content |-> BrokenFile]}

\* the documents of the input files
ShortRowDoc ==
    JObj([nodeFormat |-> JArr([k \in 1..Len(STANDARD_NODE_FORMAT) |-> JStr(STANDARD_NODE_FORMAT[k])]),
          nodes |-> JArr(<<JArr(<<JNum(1), JNum(2)>>)>>)])

WrongDoc == JObj([wrong |-> JBool(TRUE)])

\* conftest.py normalized_doc: a document that already has trips_pct
normalized_doc == process_doc(trips_doc(<<JNum(100), JNum(50)>>), round_n).doc

NtContents ==
    {JsonFile(trips_doc(<<JNum(150), JNum(50)>>)),
     JsonFile(trips_doc(<<JNum(0), JNull>>)),
     JsonFile(trips_doc(<<>>)),
     JsonFile(trips_doc(<<JStr(<<"a", "b", "c">>)>>)),
     JsonFile(normalized_doc),
     JsonFile(ShortRowDoc),
     JsonFile(WrongDoc),
     BrokenFile,
     BadUtf8File}

\* the input directories of at most n files
InDirsUpTo(n, contents) ==
    UNION {[S -> contents] : S \in {T \in SUBSET InNames : Cardinality(T) <= n}}

\* validate_raw is not running
ValidateIdle ==
    /\ rawDir = <<>>
    /\ outDir = {}
    /\ outDir0 = {}
    /\ delete_orphans = FALSE
    /\ json_files = <<>>
    /\ idx = 0
    /\ errors = <<>>
    /\ warnings = <<>>
    /\ stats = ZeroStats
    /\ valid_files = <<>>
    /\ parsed_names = <<>>
    /\ hashes = <<>>
    /\ slots = <<>>
    /\ out_files = <<>>
    /\ exc = NoExc
    /\ result = NoResult
    /\ raw_is_dir = TRUE
    /\ strict = FALSE
    /\ exit_code = -1
    /\ arg = NoCall
    /\ ret = NoCall

\* normalize_trips main is called; outMode is "none" when args.output_dir is
\* None
InitNorm ==
    /\ ValidateIdle
    /\ pc = "nt_start"
    /\ inputDir \in InDirsUpTo(MaxInFiles, NtContents)
    /\ input_is_dir \in BOOLEAN
    /\ input_is_dir = FALSE => inputDir = <<>>
    /\ inplace \in BOOLEAN
    /\ outMode \in {"none", "dir"}
    /\ outputDir = <<>>
    /\ merge = FALSE
    /\ failures = <<>>
    /\ processed = 0
    /\ runs = 1
    /\ shapefiles = <<>>

validateVars == <<rawDir, outDir, outDir0, delete_orphans, errors, warnings, stats,
                  valid_files, parsed_names, hashes, slots, out_files, result,
                  raw_is_dir, strict, arg, ret>>

\* lines 142-161: the arguments are checked and the input files listed
NtStart ==
    /\ pc = "nt_start"
    /\ IF (~inplace /\ outMode = "none") \/ (inplace /\ outMode # "none")
       THEN /\ pc' = "nt_raised"
            /\ exc' = [type |-> "SystemExit", op |-> "parser.error"]
            /\ UNCHANGED <<json_files, idx, failures, processed, exit_code>>
       ELSE IF ~input_is_dir
       THEN /\ pc' = "nt_exit"
            /\ exit_code' = 1
            /\ UNCHANGED <<json_files, idx, failures, processed, exc>>
       ELSE \E listing \in Listings(glob_json(DOMAIN inputDir)) :
               /\ json_files' = sorted(listing)
               /\ IF listing = <<>>
                  THEN /\ pc' = "nt_exit"
                       /\ exit_code' = 0
                       /\ UNCHANGED <<idx, failures, processed, exc>>
                  ELSE /\ pc' = "nt_loop"
                       /\ idx' = 1
                       /\ failures' = <<>>
                       /\ processed' = 0
                       /\ UNCHANGED <<exit_code, exc>>
    /\ UNCHANGED <<validateVars, outMode, inputDir, input_is_dir, outputDir, inplace,
                   merge, runs, shapefiles>>

\* the file name -> content map d with name holding content
Put(d, name, content) ==
    [n \in DOMAIN d \cup {name} |-> IF n = name THEN content ELSE d[n]]

\* lines 163-197: what one iteration of the loop does for filepath; of the
\* directories it gives the contents afterwards
NtIteration(filepath) ==
    LET stay == [raised |-> "none", op |-> "none", failures |-> failures,
                 processed |-> processed, inputDir |-> inputDir, outputDir |-> outputDir]
    IN  UNION {
        IF rd.exc \in CaughtOnLoad
        THEN {[stay EXCEPT !.failures = Append(failures,
                               Msg("read", <<filepath>>, <<>>, rd.exc, 0, 0, 0))]}
        ELSE IF rd.exc # "none"
        THEN {[stay EXCEPT !.raised = rd.exc, !.op = "read_json"]}
        ELSE LET err == nt_validate_doc(rd.doc, filepath)
             IN  IF err # NoError
                 THEN {[stay EXCEPT !.failures = Append(failures, err)]}
                 ELSE LET pr == process_doc(rd.doc, round_n)
                      IN  IF pr.exc # "none"
                          THEN {[stay EXCEPT !.raised = pr.exc, !.op = "process_doc"]}
                          ELSE {[stay EXCEPT
                                   !.inputDir = IF inplace /\ ~wr.kept
                                                THEN Put(inputDir, filepath, wr.content)
                                                ELSE inputDir,
                                   !.outputDir = IF ~inplace /\ ~wr.kept
                                                 THEN Put(outputDir, filepath, wr.content)
                                                 ELSE outputDir,
                                   !.failures = IF wr.exc = "OSError"
                                                THEN Append(failures,
                                                       Msg("write", <<filepath>>, <<>>, wr.exc, 0, 0, 0))
                                                ELSE failures,
                                   !.processed = IF wr.exc = "OSError"
                                                 THEN processed ELSE processed + 1]
                                : wr \in write_json(pr.doc)}
        : rd \in nt_read_json(inputDir[filepath])}

\* lines 163-197: one iteration of the loop over json_files
NtFileStep ==
    /\ pc = "nt_loop"
    /\ idx <= Len(json_files)
    /\ \E r \in NtIteration(json_files[idx]) :
          /\ failures' = r.failures
          /\ processed' = r.processed
          /\ inputDir' = r.inputDir
          /\ outputDir' = r.outputDir
          /\ IF r.raised # "none"
             THEN /\ pc' = "nt_raised"
                  /\ exc' = [type |-> r.raised, op |-> r.op]
                  /\ idx' = idx
             ELSE /\ idx' = idx + 1
                  /\ UNCHANGED <<pc, exc>>
    /\ UNCHANGED <<validateVars, outMode, json_files, exit_code, input_is_dir, inplace,
                   merge, runs, shapefiles>>

\* lines 202-208
NtExitCode(f) == IF f # <<>> THEN 1 ELSE 0

\* lines 199-208: the summary and the exit code
NtEnd ==
    /\ pc = "nt_loop"
    /\ idx > Len(json_files)
    /\ exit_code' = NtExitCode(failures)
    /\ pc' = "nt_exit"
    /\ UNCHANGED <<validateVars, outMode, json_files, idx, exc, toolVars>>

\* main is run again with the same arguments over the same directories
NtRerun ==
    /\ pc \in {"nt_exit", "nt_raised"}
    /\ runs < MaxRuns
    /\ runs' = runs + 1
    /\ pc' = "nt_start"
    /\ exit_code' = -1
    /\ exc' = NoExc
    /\ UNCHANGED <<validateVars, outMode, json_files, idx, inputDir, input_is_dir,
                   outputDir, inplace, merge, failures, processed, shapefiles>>

NextNorm == NtStart \/ NtFileStep \/ NtEnd \/ NtRerun

SpecNorm == InitNorm /\ [][NextNorm]_vars

\* ---------------------------------------------------------------------
\* Claims about normalize_trips
\* ---------------------------------------------------------------------

\* the file holds a document that passes every check of the validation
ReadsAndValidates(content) == content.bytes = "json" /\ AllValid(content.doc)

\* the write of the file's result failed in this run
WriteFailed(n) ==
    \E k \in 1..Len(failures) : failures[k].kind = "write" /\ failures[k].names = <<n>>

\* how many columns of the document are named trips_pct
PctCount(doc) ==
    IF FormatIsArray(doc)
    THEN Cardinality({k \in 1..Len(doc.v.nodeFormat.v) :
                         doc.v.nodeFormat.v[k] = JStr(F_trips_pct)})
    ELSE 0

\* a run of main with a valid combination of arguments is over
NtRunOver == pc \in {"nt_exit", "nt_raised"} /\ exc.type # "SystemExit"

\* C22: a run of normalize_trips main continues past per-file failures:
\* it ends with an exit code; every input file that reads, validates and
\* writes successfully has been processed and written, whatever the other
\* files of the batch did; the exit code is 1 exactly when a file failed
\* or the input directory does not exist, and 0 otherwise.
C22_ContinuesPastFailures ==
    NtRunOver =>
        /\ pc = "nt_exit"
        /\ exit_code \in {0, 1}
        /\ exit_code = 1 <=> (~input_is_dir \/ failures # <<>>)
        /\ ~inplace =>
              \A n \in JsonNames(DOMAIN inputDir) :
                 (ReadsAndValidates(inputDir[n]) /\ ~WriteFailed(n)) =>
                     /\ n \in DOMAIN outputDir
                     /\ outputDir[n].bytes = "json"
                     /\ PctCount(outputDir[n].doc) = 1
        /\ inplace =>
              \A n \in JsonNames(DOMAIN inputDir) :
                 ~(ReadsAndValidates(inputDir[n]) /\ ~WriteFailed(n))

\* the loop is at a file that holds a document with nodes and a trips_pct
\* column
AtNormalizedFile ==
    /\ pc = "nt_loop"
    /\ idx <= Len(json_files)
    /\ inputDir[json_files[idx]].bytes = "json"
    /\ HasKey(inputDir[json_files[idx]].doc, "nodes")
    /\ PctCount(inputDir[json_files[idx]].doc) >= 1

\* the file written by the iteration that has just counted it as processed
WrittenFile == IF inplace THEN inputDir[json_files[idx - 1]] ELSE outputDir[json_files[idx - 1]]

SchemaFailures == {k \in 1..Len(failures) : failures[k].check = "schema"}

\* C29: over any number of runs no file's nodeFormat names trips_pct twice;
\* a file that already has the column is reported as a schema mismatch and
\* neither rewritten nor counted as processed; a run that reported one and
\* returns, returns 1; a document written by a run has the column once and
\* each of its rows has len(nodeFormat) elements.
C29_NeverTwice ==
    /\ [](\A n \in DOMAIN inputDir :
             inputDir[n].bytes = "json" => PctCount(inputDir[n].doc) <= 1)
    /\ [](\A n \in DOMAIN outputDir :
             outputDir[n].bytes = "json" => PctCount(outputDir[n].doc) <= 1)
    /\ [][AtNormalizedFile =>
             /\ failures' = Append(failures, StructureError(json_files[idx], "schema", 0, 0, 0))
             /\ inputDir' = inputDir
             /\ outputDir' = outputDir
             /\ processed' = processed
             /\ pc' = "nt_loop"]_vars
    /\ []((pc = "nt_exit" /\ SchemaFailures # {}) => exit_code = 1)
    /\ [][processed' = processed + 1 =>
             /\ WrittenFile'.bytes = "json"
             /\ PctCount(WrittenFile'.doc) = 1
             /\ Len(WrittenFile'.doc.v.nodeFormat.v) = Len(EXPECTED_FIELDS) + 1
             /\ RowsFit(WrittenFile'.doc)]_vars

\* the second run in place has met the file the first run normalized
\* (50 of 150 trips are 33.33 per cent), reported it and returned 1
C29_Witness ==
    /\ pc = "nt_exit"
    /\ runs = 2
    /\ inplace
    /\ exit_code = 1
    /\ processed = 0
    /\ \E n \in DOMAIN inputDir :
          /\ inputDir[n].bytes = "json"
          /\ PctCount(inputDir[n].doc) = 1
          /\ NodesIsArray(inputDir[n].doc)
          /\ Len(inputDir[n].doc.v.nodes.v) = 2
          /\ inputDir[n].doc.v.nodes.v[1].v[8] = JFloat(10000)
          /\ inputDir[n].doc.v.nodes.v[2].v[8] = JFloat(3333)
          /\ \E k \in SchemaFailures : failures[k].names = <<n>>

\* ---------------------------------------------------------------------
\* json_to_shapefile
\* ---------------------------------------------------------------------

\* Bound of the model
MaxShapeFiles == 2

\* args.merge_name: its default
merge_name == <<"m", "e", "r", "g", "e", "d">>

F_source == <<"s", "o", "u", "r", "c", "e">>

\* the keys of FIELD_DEFS
FIELD_DEFS == {F_id, F_parentid, F_trips, F_frc, F_processingfailures, F_privacytrims,
               F_trips_pct}

\* read_json(path) of json_to_shapefile
js_read_json(content) == nt_read_json(content)

\* validate_doc(doc, path) of json_to_shapefile
js_validate_doc(doc, path) ==
    IF doc.t # "dict" THEN StructureError(path, "not_object", 0, 0, 0)
    ELSE IF "nodeFormat" \notin DOMAIN doc.v
        THEN StructureError(path, "missing_nodeFormat", 0, 0, 0)
    ELSE IF "nodes" \notin DOMAIN doc.v
        THEN StructureError(path, "missing_nodes", 0, 0, 0)
    ELSE IF doc.v.nodeFormat.t # "list" \/ doc.v.nodes.t # "list"
        THEN StructureError(path, "not_arrays", 0, 0, 0)
    ELSE NoError

\* name.lower() raises AttributeError for a name that is no str
FieldNamesAreStr(node_format) == \A k \in 1..Len(node_format) : node_format[k].t = "str"

\* find_field_indices(node_format), for field names that differ pairwise:
\* the lowercase names in the order of the dict, each with its index
find_field_indices(node_format) ==
    [k \in 1..Len(node_format) |-> [lname |-> Lower(node_format[k].v), idx |-> k]]

\* field_map.get(lname): 0 is None
field_index(field_map, lname) ==
    IF \E k \in 1..Len(field_map) : field_map[k].lname = lname
    THEN (CHOOSE k \in 1..Len(field_map) : field_map[k].lname = lname)
    ELSE 0

\* _detect_attr_fields(field_map): the lowercase names of the attributes
RECURSIVE _detect_attr_fields(_)
_detect_attr_fields(field_map) ==
    IF field_map = <<>> THEN <<>>
    ELSE LET lname == Head(field_map).lname
             rest == _detect_attr_fields(Tail(field_map))
         IN  IF lname # F_geometry /\ lname \in FIELD_DEFS THEN <<lname>> \o rest ELSE rest

\* Path(name).stem
RECURSIVE LastDot(_, _)
LastDot(s, i) == IF i = 0 THEN 0 ELSE IF s[i] = "." THEN i ELSE LastDot(s, i - 1)

stem(name) ==
    LET d == LastDot(name, Len(name))
    IN  IF d <= 1 THEN name ELSE SubSeq(name, 1, d - 1)

\* lines 154-156 (121-123): the node has a line to draw
has_line(coords) == coords.t = "list" /\ Len(coords.v) >= 2

\* node[i] raises for a node that is no list or is too short
CanIndex(node, i) == node.t = "list" /\ i <= Len(node.v)

\* lines 153-168: the nodes from i on are appended to the features; the
\* loop stops at a node that raises. source is <<>> where no source field
\* is written.
RECURSIVE append_nodes(_, _, _, _, _, _)
append_nodes(features, nodes, i, field_map, attr_fields, source) ==
    IF i > Len(nodes) THEN [exc |-> "none", features |-> features]
    ELSE LET node == nodes[i]
             geom_idx == field_index(field_map, F_geometry)
         IN  IF geom_idx # 0 /\ ~CanIndex(node, geom_idx)
             THEN [exc |-> "IndexError", features |-> features]
             ELSE IF geom_idx = 0 \/ ~has_line(node.v[geom_idx])
             THEN append_nodes(features, nodes, i + 1, field_map, attr_fields, source)
             ELSE IF \E a \in 1..Len(attr_fields) :
                        /\ field_index(field_map, attr_fields[a]) # 0
                        /\ ~CanIndex(node, field_index(field_map, attr_fields[a]))
             THEN [exc |-> "IndexError", features |-> features]
             ELSE append_nodes(
                    Append(features,
                       [coords |-> node.v[geom_idx],
                        rec |-> [a \in 1..Len(attr_fields) |->
                                   IF field_index(field_map, attr_fields[a]) # 0
                                   THEN node.v[field_index(field_map, attr_fields[a])]
                                   ELSE JNull],
                        source |-> source]),
                    nodes, i + 1, field_map, attr_fields, source)

\* append_to_writer(w, doc, source_name, attr_fields), w holding features
append_to_writer(features, doc, source_name, attr_fields) ==
    IF ~FieldNamesAreStr(doc.v.nodeFormat.v)
    THEN [exc |-> "AttributeError", features |-> features]
    ELSE append_nodes(features, doc.v.nodes.v, 1,
                      find_field_indices(doc.v.nodeFormat.v), attr_fields, source_name)

\* a shapefile: its fields, its features, whether the .prj is written
Shapefile(fields, features, prj) == [fields |-> fields, features |-> features, prj |-> prj]

\* convert_to_shapefile(doc, output_path): the exception raised and the
\* shapefile left, if one was begun
convert_to_shapefile(doc) ==
    IF ~FieldNamesAreStr(doc.v.nodeFormat.v)
    THEN [exc |-> "AttributeError", begun |-> FALSE, shp |-> Shapefile(<<>>, <<>>, FALSE)]
    ELSE LET field_map == find_field_indices(doc.v.nodeFormat.v)
             attr_fields == _detect_attr_fields(field_map)
             r == append_nodes(<<>>, doc.v.nodes.v, 1, field_map, attr_fields, <<>>)
         IN  [exc |-> r.exc, begun |-> TRUE,
              shp |-> Shapefile(attr_fields, r.features, r.exc = "none")]

\* the documents of the input files
OnePointDoc ==
    JObj([nodeFormat |-> JArr([k \in 1..Len(STANDARD_NODE_FORMAT) |-> JStr(STANDARD_NODE_FORMAT[k])]),
          nodes |-> JArr(<<make_node(JNum(1), JNull, JNum(5), JNum(3),
                                     JArr(<<JArr(<<JNum(7), JNum(47)>>)>>))>>)])

NumFormatDoc == JObj([nodeFormat |-> JArr(<<JNum(1)>>), nodes |-> JArr(<<>>)])

JsContents ==
    {JsonFile(trips_doc(<<JNum(150), JNum(50)>>)),
     JsonFile(normalized_doc),
     JsonFile(OnePointDoc),
     JsonFile(ShortRowDoc),
     JsonFile(NumFormatDoc),
     JsonFile(WrongDoc),
     BrokenFile,
     BadUtf8File}

NoInputFile == [fn |-> "json_to_shapefile", input_file |-> ""]

\* json_to_shapefile main is called with --input_file or --input_dir; the
\* output directory is empty
InitShape ==
    /\ rawDir = <<>>
    /\ outMode = "dir"
    /\ outDir = {}
    /\ outDir0 = {}
    /\ delete_orphans = FALSE
    /\ json_files = <<>>
    /\ idx = 0
    /\ errors = <<>>
    /\ warnings = <<>>
    /\ stats = ZeroStats
    /\ valid_files = <<>>
    /\ parsed_names = <<>>
    /\ hashes = <<>>
    /\ slots = <<>>
    /\ out_files = <<>>
    /\ exc = NoExc
    /\ result = NoResult
    /\ raw_is_dir = TRUE
    /\ strict = FALSE
    /\ exit_code = -1
    /\ ret = NoCall
    /\ pc = "js_start"
    /\ inputDir \in InDirsUpTo(MaxShapeFiles, JsContents)
    /\ input_is_dir \in BOOLEAN
    /\ input_is_dir = FALSE => inputDir = <<>>
    /\ arg \in {NoInputFile} \cup
               {[fn |-> "json_to_shapefile", input_file |-> n] : n \in {"notes.json", "old.shp"}}
    /\ merge \in BOOLEAN
    /\ outputDir = <<>>
    /\ inplace = FALSE
    /\ failures = <<>>
    /\ processed = 0
    /\ runs = 1
    /\ shapefiles = <<>>

shapeFrame == <<rawDir, outMode, outDir, outDir0, delete_orphans, errors, warnings, stats,
                valid_files, parsed_names, hashes, slots, out_files, result,
                raw_is_dir, strict, arg, ret, inputDir, input_is_dir, outputDir, inplace,
                merge, processed, runs>>

\* lines 200-216: the input files are collected
JsStart ==
    /\ pc = "js_start"
    /\ IF arg.input_file # ""
       THEN IF arg.input_file \notin DOMAIN inputDir
            THEN /\ pc' = "js_exit"
                 /\ exit_code' = 1
                 /\ UNCHANGED <<json_files, idx, failures>>
            ELSE /\ json_files' = <<arg.input_file>>
                 /\ pc' = IF merge THEN "js_peek" ELSE "js_files"
                 /\ idx' = 1
                 /\ failures' = <<>>
                 /\ UNCHANGED exit_code
       ELSE IF ~input_is_dir
       THEN /\ pc' = "js_exit"
            /\ exit_code' = 1
            /\ UNCHANGED <<json_files, idx, failures>>
       ELSE \E listing \in Listings(glob_json(DOMAIN inputDir)) :
               /\ json_files' = sorted(listing)
               /\ IF listing = <<>>
                  THEN /\ pc' = "js_exit"
                       /\ exit_code' = 0
                       /\ UNCHANGED <<idx, failures>>
                  ELSE /\ pc' = IF merge THEN "js_peek" ELSE "js_files"
                       /\ idx' = 1
                       /\ failures' = <<>>
                       /\ UNCHANGED exit_code
    /\ UNCHANGED <<shapeFrame, exc, shapefiles>>

\* lines 221-229: the peek loop from file i on: the exception it raises, or
\* the index of the first file that reads and validates, 0 if there is none
RECURSIVE first_doc(_)
first_doc(i) ==
    IF i > Len(json_files) THEN {[exc |-> "none", at |-> 0]}
    ELSE UNION {
        IF rd.exc \in CaughtOnLoad THEN first_doc(i + 1)
        ELSE IF rd.exc # "none" THEN {[exc |-> rd.exc, at |-> i]}
        ELSE IF js_validate_doc(rd.doc, json_files[i]) = NoError
             THEN {[exc |-> "none", at |-> i]}
             ELSE first_doc(i + 1)
        : rd \in js_read_json(inputDir[json_files[i]])}

\* lines 218-247: merged mode looks for the first valid file, takes the
\* fields from it and opens the one Writer at output_dir / merge_name
JsPeek ==
    /\ pc = "js_peek"
    /\ \E f \in first_doc(1) :
          IF f.exc # "none"
          THEN /\ pc' = "js_raised"
               /\ exc' = [type |-> f.exc, op |-> "read_json"]
               /\ UNCHANGED <<exit_code, shapefiles>>
          ELSE IF f.at = 0
          THEN /\ pc' = "js_exit"
               /\ exit_code' = 1
               /\ UNCHANGED <<exc, shapefiles>>
          ELSE LET node_format == inputDir[json_files[f.at]].doc.v.nodeFormat.v
               IN  IF ~FieldNamesAreStr(node_format)
                   THEN /\ pc' = "js_raised"
                        /\ exc' = [type |-> "AttributeError", op |-> "find_field_indices"]
                        /\ UNCHANGED <<exit_code, shapefiles>>
                   ELSE /\ shapefiles' =
                             Put(shapefiles, <<merge_name>>,
                                 Shapefile(Append(_detect_attr_fields(find_field_indices(node_format)),
                                                  F_source),
                                           <<>>, FALSE))
                        /\ pc' = "js_merge"
                        /\ UNCHANGED <<exit_code, exc>>
    /\ UNCHANGED <<shapeFrame, json_files, idx, failures>>

\* the attribute fields of the Writer, without the source field
WriterAttrFields(shp) == SubSeq(shp.fields, 1, Len(shp.fields) - 1)

\* lines 249-274: one iteration of the loop of merged mode
JsMergeStep ==
    /\ pc = "js_merge"
    /\ idx <= Len(json_files)
    /\ LET filepath == json_files[idx]
           w == shapefiles[<<merge_name>>]
       IN  \E rd \in js_read_json(inputDir[filepath]) :
              IF rd.exc \in CaughtOnLoad
              THEN /\ failures' = Append(failures, Msg("read", <<filepath>>, <<>>, rd.exc, 0, 0, 0))
                   /\ idx' = idx + 1
                   /\ UNCHANGED <<pc, exc, shapefiles>>
              ELSE IF rd.exc # "none"
              THEN /\ pc' = "js_raised"
                   /\ exc' = [type |-> rd.exc, op |-> "read_json"]
                   /\ UNCHANGED <<idx, failures, shapefiles>>
              ELSE IF js_validate_doc(rd.doc, filepath) # NoError
              THEN /\ failures' = Append(failures, js_validate_doc(rd.doc, filepath))
                   /\ idx' = idx + 1
                   /\ UNCHANGED <<pc, exc, shapefiles>>
              ELSE LET r == append_to_writer(w.features, rd.doc, stem(Chars(filepath)),
                                             WriterAttrFields(w))
                   IN  /\ shapefiles' = [shapefiles EXCEPT ![<<merge_name>>].features = r.features]
                       /\ failures' = IF r.exc # "none"
                                      THEN Append(failures,
                                             Msg("convert", <<filepath>>, <<>>, r.exc, 0, 0, 0))
                                      ELSE failures
                       /\ idx' = idx + 1
                       /\ UNCHANGED <<pc, exc>>
    /\ UNCHANGED <<shapeFrame, json_files, exit_code>>

\* lines 321-327
JsExitCode(f) == IF f # <<>> THEN 1 ELSE 0

\* lines 276-285 and 321-327: the Writer is closed, the .prj written
JsMergeEnd ==
    /\ pc = "js_merge"
    /\ idx > Len(json_files)
    /\ shapefiles' = [shapefiles EXCEPT ![<<merge_name>>].prj = TRUE]
    /\ exit_code' = JsExitCode(failures)
    /\ pc' = "js_exit"
    /\ UNCHANGED <<shapeFrame, json_files, idx, failures, exc>>

\* lines 289-315: one iteration of the loop of per-file mode; the
\* shapefile is output_dir / stem / stem
JsFileStep ==
    /\ pc = "js_files"
    /\ idx <= Len(json_files)
    /\ LET filepath == json_files[idx]
       IN  \E rd \in js_read_json(inputDir[filepath]) :
              IF rd.exc \in CaughtOnLoad
              THEN /\ failures' = Append(failures, Msg("read", <<filepath>>, <<>>, rd.exc, 0, 0, 0))
                   /\ idx' = idx + 1
                   /\ UNCHANGED <<pc, exc, shapefiles>>
              ELSE IF rd.exc # "none"
              THEN /\ pc' = "js_raised"
                   /\ exc' = [type |-> rd.exc, op |-> "read_json"]
                   /\ UNCHANGED <<idx, failures, shapefiles>>
              ELSE IF js_validate_doc(rd.doc, filepath) # NoError
              THEN /\ failures' = Append(failures, js_validate_doc(rd.doc, filepath))
                   /\ idx' = idx + 1
                   /\ UNCHANGED <<pc, exc, shapefiles>>
              ELSE LET r == convert_to_shapefile(rd.doc)
                       output_path == <<stem(Chars(filepath)), stem(Chars(filepath))>>
                   IN  /\ shapefiles' = IF r.begun THEN Put(shapefiles, output_path, r.shp)
                                        ELSE shapefiles
                       /\ failures' = IF r.exc # "none"
                                      THEN Append(failures,
                                             Msg("convert", <<filepath>>, <<>>, r.exc, 0, 0, 0))
                                      ELSE failures
                       /\ idx' = idx + 1
                       /\ UNCHANGED <<pc, exc>>
    /\ UNCHANGED <<shapeFrame, json_files, exit_code>>

\* lines 317-327: the summary and the exit code of per-file mode
JsFilesEnd ==
    /\ pc = "js_files"
    /\ idx > Len(json_files)
    /\ exit_code' = JsExitCode(failures)
    /\ pc' = "js_exit"
    /\ UNCHANGED <<shapeFrame, json_files, idx, failures, exc, shapefiles>>

NextShape == JsStart \/ JsPeek \/ JsMergeStep \/ JsMergeEnd \/ JsFileStep \/ JsFilesEnd

SpecShape == InitShape /\ [][NextShape]_vars

\* ---------------------------------------------------------------------
\* Claims about json_to_shapefile
\* ---------------------------------------------------------------------

\* kw occurs in s
Contains(s, kw) ==
    \E i \in 1..(Len(s) - Len(kw) + 1) : SubSeq(s, i, i + Len(kw) - 1) = kw

W_unknown == <<"u", "n", "k", "n", "o", "w", "n">>

\* the direction keyword found case-insensitively in a file name
DirectionOf(name) ==
    IF Contains(Lower(Chars(name)), KW_incoming) THEN KW_incoming
    ELSE IF Contains(Lower(Chars(name)), KW_outgoing) THEN KW_outgoing
    ELSE W_unknown

\* the input files whose features the run merged
MergedFiles ==
    {n \in Range(json_files) :
        /\ inputDir[n].bytes = "json"
        /\ RowsFit(inputDir[n].doc)
        /\ \A k \in 1..Len(failures) : failures[k].names # <<n>>}

\* the sources of the features of a shapefile
SourcesOf(shp) == {shp.features[k].source : k \in 1..Len(shp.features)}

\* the features a merged file contributes: one per node with a line
FeaturesOf(n) ==
    Cardinality({i \in 1..Len(inputDir[n].doc.v.nodes.v) :
                    has_line(inputDir[n].doc.v.nodes.v[i].v[5])})

\* C23: after a run of main with --merge the shapefiles written are the
\* direction buckets of the merged input files, each named incoming,
\* outgoing or unknown after the keyword in the file names; the features of
\* a bucket are those of exactly the input files of its direction, each
\* with the file stem as its source.
C23_MergePerDirection ==
    (pc = "js_exit" /\ merge) =>
        /\ \A n \in MergedFiles : <<DirectionOf(n)>> \in DOMAIN shapefiles
        /\ \A path \in DOMAIN shapefiles :
              /\ path \in {<<KW_incoming>>, <<KW_outgoing>>, <<W_unknown>>}
              /\ SourcesOf(shapefiles[path]) =
                    {stem(Chars(n)) : n \in {m \in MergedFiles :
                                               DirectionOf(m) = path[1] /\ FeaturesOf(m) > 0}}

====
